---------------------------- MODULE Spec2Model ----------------------------
(***************************************************************************)
(* AlphaRenamer: the lexicon-based rename pass (app/rename_from_lexique.py)*)
(* and the per-page routing of split_and_process (app/alpha_renamer_gui.py)*)
(*                                                                         *)
(* Text is modelled as a sequence of characters; a character is a one-atom *)
(* string.  Three atoms stand for code points that are not ASCII:          *)
(*   "Eacute" = U+00C9, "eacute" = U+00E9 (precomposed letters) and        *)
(*   "acute"  = U+0301 (the combining mark their NFD form contains).       *)
(***************************************************************************)
EXTENDS Integers, Sequences, FiniteSets, TLC

(***************************************************************************)
(* Character classes of Python's re / str on the characters of the model.  *)
(***************************************************************************)
Digits == {"0", "1", "2", "3", "4", "5", "6", "7", "8", "9"}

UpperLetters == {"A", "B", "C", "D", "E", "F", "G", "H", "I", "L", "M", "N",
                 "O", "P", "R", "S", "T", "U", "V", "X", "Eacute"}

LowerLetters == {"a", "b", "c", "d", "e", "f", "i", "l", "m", "n", "o", "p", "r",
                 "s", "t", "u", "v", "x", "eacute"}

\* <<lower, upper>> of every cased letter of the model
CasePairs == {<<"a", "A">>, <<"b", "B">>, <<"c", "C">>, <<"d", "D">>, <<"e", "E">>,
              <<"f", "F">>, <<"i", "I">>, <<"l", "L">>, <<"m", "M">>,
              <<"n", "N">>, <<"o", "O">>, <<"p", "P">>, <<"r", "R">>,
              <<"s", "S">>, <<"t", "T">>, <<"u", "U">>, <<"v", "V">>,
              <<"x", "X">>, <<"eacute", "Eacute">>}

Letters == UpperLetters \cup LowerLetters

\* \s of re
Whitespace == {" ", "TAB"}

\* unicodedata.combining(c) # 0
Combining == {"acute"}

\* characters that are neither \w nor \s nor "." nor "-"
Punctuation == {"(", ")", "!", "&"}

Chars == Letters \cup Digits \cup Whitespace \cup Combining \cup Punctuation
           \cup {"_", ".", "-"}

\* \w of re on str: letters, digits and the underscore
IsWord(c) == c \in Letters \cup Digits \cup {"_"}

IsSpace(c) == c \in Whitespace

\* int(c) for a digit character
DigitVal(c) ==
    CASE c = "0" -> 0 [] c = "1" -> 1 [] c = "2" -> 2 [] c = "3" -> 3
      [] c = "4" -> 4 [] c = "5" -> 5 [] c = "6" -> 6 [] c = "7" -> 7
      [] c = "8" -> 8 [] c = "9" -> 9

\* str.upper() on one character
UpperChar(c) ==
    IF \E p \in CasePairs : p[1] = c
    THEN (CHOOSE p \in CasePairs : p[1] = c)[2] ELSE c

\* str.lower() on one character
LowerChar(c) ==
    IF \E p \in CasePairs : p[2] = c
    THEN (CHOOSE p \in CasePairs : p[2] = c)[1] ELSE c

\* unicodedata.normalize("NFD", c) of one character
NFDChar(c) ==
    CASE c = "Eacute" -> <<"E", "acute">>
      [] c = "eacute" -> <<"e", "acute">>
      [] OTHER -> <<c>>

(***************************************************************************)
(* Sequence helpers (str methods).                                         *)
(***************************************************************************)
\* str.upper()
Upper(s) == [k \in 1..Len(s) |-> UpperChar(s[k])]

\* str.lower()
Lower(s) == [k \in 1..Len(s) |-> LowerChar(s[k])]

\* number of leading characters of s that are in set cs
RECURSIVE LeadingIn(_, _)
LeadingIn(s, cs) ==
    IF s = <<>> \/ Head(s) \notin cs THEN 0 ELSE 1 + LeadingIn(Tail(s), cs)

\* number of trailing characters of s that are in set cs
RECURSIVE TrailingIn(_, _)
TrailingIn(s, cs) ==
    IF s = <<>> \/ s[Len(s)] \notin cs THEN 0
    ELSE 1 + TrailingIn(SubSeq(s, 1, Len(s) - 1), cs)

\* str.strip(cs)
StripChars(s, cs) ==
    LET a == LeadingIn(s, cs)
    IN  IF a = Len(s) THEN <<>>
        ELSE SubSeq(s, a + 1, Len(s) - TrailingIn(s, cs))

\* str.strip()
Strip(s) == StripChars(s, Whitespace)

\* index of the first occurrence of character c in s, 0 when there is none
RECURSIVE IndexOf(_, _)
IndexOf(s, c) ==
    IF s = <<>> THEN 0
    ELSE IF Head(s) = c THEN 1
    ELSE LET r == IndexOf(Tail(s), c) IN IF r = 0 THEN 0 ELSE r + 1

\* str.startswith
StartsWith(s, p) == Len(s) >= Len(p) /\ SubSeq(s, 1, Len(p)) = p

\* re.sub(r"<c in cs>+", <<r>>, s): every maximal run of characters of cs
\* becomes the single character r
RECURSIVE CollapseRuns(_, _, _)
CollapseRuns(s, cs, r) ==
    IF s = <<>> THEN <<>>
    ELSE IF Head(s) \in cs
         THEN <<r>> \o CollapseRuns(SubSeq(s, LeadingIn(s, cs) + 1, Len(s)), cs, r)
         ELSE <<Head(s)>> \o CollapseRuns(Tail(s), cs, r)

(***************************************************************************)
(* normalize_text                                                          *)
(***************************************************************************)
\* re.sub(r"\s*\([^)]*\)", "", txt): leftmost matches, left to right
RECURSIVE RemoveParens(_)
RemoveParens(s) ==
    IF s = <<>> THEN <<>>
    ELSE LET rest == SubSeq(s, LeadingIn(s, Whitespace) + 1, Len(s))
             k    == IndexOf(rest, ")")
         IN  IF rest # <<>> /\ Head(rest) = "(" /\ k > 0
             THEN RemoveParens(SubSeq(rest, k + 1, Len(rest)))
             ELSE <<Head(s)>> \o RemoveParens(Tail(s))

\* unicodedata.normalize("NFD", txt)
RECURSIVE NFD(_)
NFD(s) == IF s = <<>> THEN <<>> ELSE NFDChar(Head(s)) \o NFD(Tail(s))

\* "".join(c for c in nfkd_form if not unicodedata.combining(c))
RECURSIVE DropCombining(_)
DropCombining(s) ==
    IF s = <<>> THEN <<>>
    ELSE IF Head(s) \in Combining THEN DropCombining(Tail(s))
    ELSE <<Head(s)>> \o DropCombining(Tail(s))

StripAccents(s) == DropCombining(NFD(s))

\* re.sub(r"[^\w\s\.-]", " ", s)
PunctToSpaceChar(c) ==
    IF IsWord(c) \/ IsSpace(c) \/ c = "." \/ c = "-" THEN c ELSE " "

PunctToSpace(s) == [k \in 1..Len(s) |-> PunctToSpaceChar(s[k])]

\* re.sub(r"\s+", " ", s)
CollapseSpaces(s) == CollapseRuns(s, Whitespace, " ")

\* mutant of normalize_text: whitespace runs collapsed before the
\* punctuation is replaced
normalize_text_CollapseFirst(t) ==
    Strip(PunctToSpace(CollapseSpaces(StripAccents(RemoveParens(t)))))

normalize_text(txt) ==
    Strip(CollapseSpaces(PunctToSpace(StripAccents(RemoveParens(txt)))))

(***************************************************************************)
(* load_lexique                                                            *)
(*                                                                         *)
(* A table is [readable, columns, rows]: readable is FALSE when            *)
(* pd.read_excel raises; columns is the set of header texts; a row gives   *)
(* str(cell) of its NOCLI and NOMCLI cells (an empty cell reads as NaN,    *)
(* whose str() is "nan").  The outcome of the load is a mapping, a         *)
(* function from code to name, or the exception LexiqueError.              *)
(***************************************************************************)
NOCLI == <<"N", "O", "C", "L", "I">>

NOMCLI == <<"N", "O", "M", "C", "L", "I">>

NaN == <<"n", "a", "n">>

EmptyMapping == [c \in {} |-> <<>>]

\* not code or code.lower() == "nan"
IsBlankCell(v) == v = <<>> \/ Lower(v) = NaN

\* re.sub(r"\s+", " ", normalize_text(nom)).strip().upper()
CleanName(nom) == Upper(Strip(CollapseSpaces(normalize_text(nom))))

\* one iteration of the loop over df.iterrows()
LoadRow(mapping, row) ==
    LET code == Strip(row.code)
        nom  == Strip(row.nom)
    IN  IF IsBlankCell(code) THEN mapping
        ELSE IF IsBlankCell(nom) THEN mapping
        ELSE [c \in DOMAIN mapping \cup {code} |->
                 IF c = code THEN CleanName(nom) ELSE mapping[c]]

RECURSIVE LoadRows(_, _)
LoadRows(mapping, rows) ==
    IF rows = <<>> THEN mapping
    ELSE LoadRows(LoadRow(mapping, Head(rows)), Tail(rows))

\* load_lexique without its final "if not mapping: raise"
load_lexique_NoEmptyCheck(table) ==
    IF ~table.readable THEN [raised |-> TRUE, mapping |-> EmptyMapping]
    ELSE IF NOCLI \notin {Upper(c) : c \in table.columns}
              \/ NOMCLI \notin {Upper(c) : c \in table.columns}
         THEN [raised |-> TRUE, mapping |-> EmptyMapping]
    ELSE [raised |-> FALSE, mapping |-> LoadRows(EmptyMapping, table.rows)]

\* the outcome of load_lexique: raised is TRUE for LexiqueError
load_lexique(table) ==
    IF ~table.readable THEN [raised |-> TRUE, mapping |-> EmptyMapping]
    ELSE IF NOCLI \notin {Upper(c) : c \in table.columns}
              \/ NOMCLI \notin {Upper(c) : c \in table.columns}
         THEN [raised |-> TRUE, mapping |-> EmptyMapping]
    ELSE LET mapping == LoadRows(EmptyMapping, table.rows)
         IN  IF DOMAIN mapping = {}
             THEN [raised |-> TRUE, mapping |-> EmptyMapping]
             ELSE [raised |-> FALSE, mapping |-> mapping]

(***************************************************************************)
(* find_year_token and the name reconstruction of rename_file.  Token      *)
(* indices are 1-based; 0 stands for None.                                 *)
(***************************************************************************)
YearMin == 1900

YearMax == 2100

\* [t for t in re.split(r"_+", s) if t]
RECURSIVE SplitTokens(_)
SplitTokens(s) ==
    IF s = <<>> THEN <<>>
    ELSE IF Head(s) = "_"
         THEN SplitTokens(SubSeq(s, LeadingIn(s, {"_"}) + 1, Len(s)))
         ELSE LET n == LeadingIn(s, Chars \ {"_"})
              IN  <<SubSeq(s, 1, n)>> \o SplitTokens(SubSeq(s, n + 1, Len(s)))

\* int(t) of a string of digits
RECURSIVE IntOf(_)
IntOf(t) ==
    IF t = <<>> THEN 0
    ELSE 10 * IntOf(SubSeq(t, 1, Len(t) - 1)) + DigitVal(t[Len(t)])

\* re.fullmatch(r"\d{4}", t) and 1900 <= int(t) <= 2100
IsYearToken(t) ==
    /\ Len(t) = 4
    /\ \A k \in 1..4 : t[k] \in Digits
    /\ YearMin <= IntOf(t) /\ IntOf(t) <= YearMax

\* find_year_token returning the first year token instead of the last
find_year_token_First(tokens) ==
    IF \E k \in 1..Len(tokens) : IsYearToken(tokens[k])
    THEN CHOOSE k \in 1..Len(tokens) :
            /\ IsYearToken(tokens[k])
            /\ \A j \in 1..(k - 1) : ~IsYearToken(tokens[j])
    ELSE 0

find_year_token(tokens) ==
    IF \E k \in 1..Len(tokens) : IsYearToken(tokens[k])
    THEN CHOOSE k \in 1..Len(tokens) :
            /\ IsYearToken(tokens[k])
            /\ \A j \in (k + 1)..Len(tokens) : ~IsYearToken(tokens[j])
    ELSE 0

\* the loop "for i, t in enumerate(tokens): if t in codes: ... break"
FindCode(tokens, mapping) ==
    IF \E k \in 1..Len(tokens) : tokens[k] \in DOMAIN mapping
    THEN CHOOSE k \in 1..Len(tokens) :
            /\ tokens[k] \in DOMAIN mapping
            /\ \A j \in 1..(k - 1) : tokens[j] \notin DOMAIN mapping
    ELSE 0

\* "_".join(tokens)
RECURSIVE JoinUnderscore(_)
JoinUnderscore(tokens) ==
    IF tokens = <<>> THEN <<>>
    ELSE IF Len(tokens) = 1 THEN tokens[1]
    ELSE tokens[1] \o <<"_">> \o JoinUnderscore(Tail(tokens))

\* the tokens taken from the base name as it is, not normalized
Tokenize_Raw(base) == SplitTokens(base)

\* tokens = [t for t in re.split(r"_+", normalize_text(base)) if t]
Tokenize(base) == SplitTokens(normalize_text(base))

\* new_tokens without the tokens that follow the year
NewTokens_DropSuffix(tokens, mapping) ==
    LET code_idx == FindCode(tokens, mapping)
        year_idx == find_year_token(tokens)
    IN  IF code_idx # 0
        THEN SubSeq(tokens, 1, code_idx - 1)
               \o <<tokens[code_idx], mapping[tokens[code_idx]]>>
               \o (IF year_idx # 0 THEN <<tokens[year_idx]>> ELSE <<>>)
        ELSE tokens

\* new_tokens keeping, when there is no year, the tokens after the code
NewTokens_KeepAfterCode(tokens, mapping) ==
    LET code_idx == FindCode(tokens, mapping)
        year_idx == find_year_token(tokens)
    IN  IF code_idx # 0
        THEN SubSeq(tokens, 1, code_idx - 1)
               \o <<tokens[code_idx], mapping[tokens[code_idx]]>>
               \o (IF year_idx # 0 THEN <<tokens[year_idx]>> ELSE <<>>)
               \o SubSeq(tokens, (IF year_idx # 0 THEN year_idx ELSE code_idx) + 1,
                         Len(tokens))
        ELSE tokens

\* new_tokens of rename_file
NewTokens(tokens, mapping) ==
    LET code_idx == FindCode(tokens, mapping)
        year_idx == find_year_token(tokens)
    IN  IF code_idx # 0
        THEN LET prefix_tokens == SubSeq(tokens, 1, code_idx - 1)
                 suffix_tokens == IF year_idx # 0
                                  THEN SubSeq(tokens, year_idx + 1, Len(tokens))
                                  ELSE <<>>
                 client_tokens == <<tokens[code_idx], mapping[tokens[code_idx]]>>
             IN  prefix_tokens \o client_tokens
                   \o (IF year_idx # 0 THEN <<tokens[year_idx]>> ELSE <<>>)
                   \o suffix_tokens
        ELSE tokens

\* new_base = re.sub(r"_+", "_", "_".join(new_tokens)).strip("_")
NewBase(tokens, mapping) ==
    StripChars(CollapseRuns(JoinUnderscore(NewTokens(tokens, mapping)), {"_"}, "_"),
               {"_"})

(***************************************************************************)
(* Paths.  A path is [dir, base, ext]: dir is the sequence of directory    *)
(* names below the root (path.parent relative to folder), base is          *)
(* path.stem and ext is path.suffix without its dot.  The file system is a *)
(* function from the paths that exist to the identity of the file there    *)
(* (the path it had when the pass started); names are case-sensitive.      *)
(***************************************************************************)
NoPath == [dir |-> <<>>, base |-> <<>>, ext |-> <<>>]

\* path.name
FileName(path) ==
    IF path.ext = <<>> THEN path.base ELSE path.base \o <<".">> \o path.ext

\* the default skip_dirs and allowed_ext of rename_with_lexique
SkipDirs == {<<"_", "E", "R", "R", "E", "U", "R", "S">>}

AllowedExt == {<<"p", "d", "f">>}

\* the three filters of the walk: skip directories, allowed extensions
IsEligible(path) ==
    /\ \A k \in 1..Len(path.dir) :
           Lower(path.dir[k]) \notin {Lower(d) : d \in SkipDirs}
    /\ Lower(FileName(path)) \notin {Lower(d) : d \in SkipDirs}
    /\ Lower(path.ext) \in {Lower(e) : e \in AllowedExt}

\* str(i) for i >= 0
RECURSIVE Decimal(_)
Decimal(i) ==
    LET d == CHOOSE c \in Digits : DigitVal(c) = i % 10
    IN  IF i < 10 THEN <<d>> ELSE Decimal(i \div 10) \o <<d>>

\* dirpath / new_name
TargetPath(path, new_base) == [path EXCEPT !.base = new_base]

\* dirpath / f"{new_base}_v{i}{ext}"
Candidate(path, new_base, i) ==
    [path EXCEPT !.base = new_base \o <<"_", "v">> \o Decimal(i)]

\* the result of path.rename(new_path) on the file system fs (POSIX rename:
\* a file at new_path is replaced)
RenameIn(fs, path, new_path) ==
    [q \in (DOMAIN fs \ {path}) \cup {new_path} |->
        IF q = new_path THEN fs[path] ELSE fs[q]]

(***************************************************************************)
(* Inputs of the model: lexicon tables, file names, directory contents.    *)
(***************************************************************************)
MaxTokens == 4

MaxParts == 3

MaxFiles == 3

TokCode == <<"1", "2", "3", "4", "5">>

TokYear == <<"2", "0", "2", "3">>

TokYearLow == <<"1", "9", "0", "0">>

TokNotYear == <<"2", "1", "0", "1">>

TokX == <<"X">>

AcmeStore == <<"A", "C", "M", "E", " ", "S", "T", "O", "R", "E">>

Pdf == <<"p", "d", "f">>

HeadersOk == {NOCLI, NOMCLI}

\* {"12345": "ACME STORE"}
TableAcme ==
    [readable |-> TRUE, columns |-> HeadersOk,
     rows |-> << [code |-> TokCode, nom |-> AcmeStore] >>]

\* lower-case headers, an extra column, blank and "nan" cells, a repeated
\* code, a name with underscores, a second key X and a key that is a year
TableMixed ==
    [readable |-> TRUE,
     columns |-> {<<"n", "o", "c", "l", "i">>, <<"N", "o", "m", "C", "l", "i">>,
                  <<"X">>},
     rows |-> << [code |-> <<" ">> \o TokCode, nom |-> <<"o", "l", "d">>],
                 [code |-> NaN, nom |-> <<"A">>],
                 [code |-> TokX, nom |-> <<"N", "a", "N">>],
                 [code |-> TokX, nom |-> <<"eacute", " ", "(", "x", ")", "&", "c">>],
                 [code |-> TokYear, nom |-> <<"d", ".">>],
                 [code |-> TokCode \o <<" ">>, nom |-> <<"_", "a", "_", "_", "b">>] >>]

\* a name that is only a parenthesized aside
TableAside ==
    [readable |-> TRUE, columns |-> HeadersOk,
     rows |-> << [code |-> TokCode, nom |-> <<"(", "x", ")">>] >>]

\* pd.read_excel raises
TableUnreadable == [readable |-> FALSE, columns |-> {}, rows |-> <<>>]

TableNoNom ==
    [readable |-> TRUE, columns |-> {NOCLI, <<"N", "O", "M">>},
     rows |-> << [code |-> TokCode, nom |-> AcmeStore] >>]

TableNoCode ==
    [readable |-> TRUE, columns |-> {NOMCLI},
     rows |-> << [code |-> TokCode, nom |-> AcmeStore] >>]

\* no row has both a code and a name
TableNoRows ==
    [readable |-> TRUE, columns |-> HeadersOk,
     rows |-> << [code |-> NaN, nom |-> AcmeStore],
                 [code |-> TokCode, nom |-> <<" ">>],
                 [code |-> <<>>, nom |-> <<"A">>] >>]

GoodTables == {TableAcme, TableMixed, TableAside}

Tables == GoodTables \cup {TableUnreadable, TableNoNom, TableNoCode, TableNoRows}

RECURSIVE Concat(_)
Concat(parts) == IF parts = <<>> THEN <<>> ELSE Head(parts) \o Concat(Tail(parts))

TokenPool == {TokCode, TokYear, TokYearLow, TokNotYear, TokX}

PartPool == {<<"_">>, <<"(">>, <<")">>, <<"eacute">>, <<" ">>, TokX, TokCode}

\* base names made of tokens joined by underscores
TokenNames ==
    {JoinUnderscore(ts) : ts \in UNION {[1..n -> TokenPool] : n \in 1..MaxTokens}}

\* base names with accents, parentheses, spaces and stray underscores
PartNames ==
    {Concat(ps) : ps \in UNION {[1..n -> PartPool] : n \in 1..MaxParts}}

\* "FACT_12345_2023_v1"
NameFact ==
    <<"F", "A", "C", "T", "_">> \o TokCode \o <<"_">> \o TokYear \o <<"_", "v", "1">>

\* "X_12345_2101_2023_X": prefix, code, a dropped token, year, suffix
NameFull ==
    JoinUnderscore(<<TokX, TokCode, TokNotYear, TokYear, TokX>>)

BaseNames == TokenNames \cup PartNames \cup {NameFact, NameFull}

InRoot(base, ext) == [dir |-> <<>>, base |-> base, ext |-> ext]

\* "12345_ACME STORE_2023": the target of the two names below under TableAcme
NameTarget == JoinUnderscore(<<TokCode, AcmeStore, TokYear>>)

PassPaths ==
    { InRoot(JoinUnderscore(<<TokCode, <<"A">>, TokYear>>), Pdf),
      InRoot(JoinUnderscore(<<TokCode, TokX, TokYear>>), Pdf),
      InRoot(NameTarget, Pdf),
      InRoot(NameTarget \o <<"_", "v", "2">>, Pdf),
      InRoot(JoinUnderscore(<<TokCode, TokX, TokYear>>), <<"P", "D", "F">>),
      InRoot(JoinUnderscore(<<TokCode, TokX, TokYear>>), <<"t", "x", "t">>),
      [dir |-> << <<"S">> >>, base |-> JoinUnderscore(<<TokCode, TokX, TokYear>>),
       ext |-> Pdf],
      [dir |-> << <<"_", "E", "r", "r", "e", "u", "r", "s">> >>,
       base |-> JoinUnderscore(<<TokCode, TokX, TokYear>>), ext |-> Pdf] }

\* the directory contents of a pass: up to MaxFiles of the paths above
PassDirs == {S \in SUBSET PassPaths : Cardinality(S) <= MaxFiles}

\* one file in the root, of any of the base names
NameDirs == {{InRoot(b, Pdf)} : b \in BaseNames}

(***************************************************************************)
(* State.                                                                  *)
(***************************************************************************)
Procs == {1, 2}

VARIABLES
    table,      \* the lexicon table at lexique_path
    dry_run,    \* the dry_run argument
    deny,       \* the files whose rename the operating system refuses
    fs0,        \* the file system when the pass started
    fs,         \* the file system
    pc,         \* per invocation: idle, start, walk, exists, probe, rename,
                \* done (returned) or raised (LexiqueError)
    mapping,    \* per invocation: the mapping load_lexique returned
    todo,       \* per invocation: the eligible paths rglob has yet to yield
    cur,        \* per invocation: the locals of the running rename_file call
    renamed,    \* per invocation: the counters of rename_with_lexique
    skipped,
    errors,
    last,       \* per invocation: path and outcome of the last rename_file call
    raisedOn,   \* the paths on which a rename_file call raised
    pdf_ok,     \* split_and_process: PdfReader(pdf_path) does not raise
    pages,      \* what extract_fields_from_text returns for each page
    page_i,     \* the number of pages handled so far
    out_files,  \* the file names in out_dir
    err_files,  \* the file names in errors_dir
    out0,       \* out_files and err_files when split_and_process started
    err0,
    log,        \* the rows given to log_writer.writerow
    spc         \* split_and_process: idle, start, pages, done or raised

\* the state of the rename pass
passVars == <<table, dry_run, deny, fs0, fs, pc, mapping, todo, cur,
              renamed, skipped, errors, last, raisedOn>>

\* the state of split_and_process (with dry_run)
splitVars == <<pdf_ok, pages, page_i, out_files, err_files, out0, err0, log, spc>>

VARIABLES
    text,       \* the argument of normalize_text
    norm,       \* normalize_text(txt)
    again,      \* normalize_text(norm)
    npc         \* idle, arg, once or twice

\* a text and its normalizations
normVars == <<text, norm, again, npc>>

VARIABLES
    page_txt,   \* the text of the page given to extract_fields_from_text
    fields,     \* the PageInfo it returned
    xpc         \* idle, call or returned

\* a page text and the fields extracted from it
extractVars == <<page_txt, fields, xpc>>

vars == <<passVars, splitVars, normVars, extractVars>>

NoCur == [path |-> NoPath, new_base |-> <<>>, new_path |-> NoPath, i |-> 0]

NoLast == [path |-> NoPath, status |-> "none", new_path |-> NoPath]

InitPass(running) ==
    /\ fs = fs0
    /\ pc = [p \in Procs |-> IF p \in running THEN "start" ELSE "idle"]
    /\ mapping = [p \in Procs |-> EmptyMapping]
    /\ todo = [p \in Procs |-> {}]
    /\ cur = [p \in Procs |-> NoCur]
    /\ renamed = [p \in Procs |-> 0]
    /\ skipped = [p \in Procs |-> 0]
    /\ errors = [p \in Procs |-> 0]
    /\ last = [p \in Procs |-> NoLast]
    /\ raisedOn = {}

\* one invocation; either one file of any base name under a table that
\* loads, or a small directory under any table, simulated or not, with at
\* most one file the operating system refuses to rename
\* split_and_process is not running
SplitIdle ==
    /\ pdf_ok = TRUE
    /\ pages = <<>>
    /\ page_i = 0
    /\ out_files = {} /\ err_files = {}
    /\ out0 = {} /\ err0 = {}
    /\ log = <<>>
    /\ spc = "idle"

NormIdle ==
    /\ text = <<>>
    /\ norm = <<>>
    /\ again = <<>>
    /\ npc = "idle"

ExtractIdle ==
    /\ page_txt = <<>>
    /\ fields = [op |-> <<>>, code |-> <<>>, nom |-> <<>>, an |-> <<>>]
    /\ xpc = "idle"

Init ==
    /\ SplitIdle
    /\ NormIdle
    /\ ExtractIdle
    /\ \/ /\ table \in GoodTables
          /\ dry_run = FALSE
          /\ \E S \in NameDirs : fs0 = [q \in S |-> q]
          /\ deny = {}
       \/ /\ table \in Tables
          /\ dry_run \in BOOLEAN
          /\ \E S \in PassDirs :
                /\ fs0 = [q \in S |-> q]
                /\ deny \in {{}} \cup {{q} : q \in S}
    /\ InitPass({1})

(***************************************************************************)
(* rename_with_lexique and rename_file, one action per step that reads or  *)
(* writes the file system.                                                 *)
(***************************************************************************)
\* folder.rglob("*") filtered by the three "continue" tests of the walk
Eligible(files) == {q \in DOMAIN files : IsEligible(q)}

\* mapping = load_lexique(lexique_path) raises LexiqueError: the call ends
LoadRaise(p) ==
    /\ pc[p] = "start"
    /\ load_lexique(table).raised
    /\ pc' = [pc EXCEPT ![p] = "raised"]
    /\ UNCHANGED <<splitVars, normVars, extractVars, table, dry_run, deny, fs0, fs, mapping, todo, cur,
                   renamed, skipped, errors, last, raisedOn>>

\* the lexicon loaded: the counters are zeroed and the walk starts
LoadOk(p) ==
    /\ pc[p] = "start"
    /\ ~load_lexique(table).raised
    /\ mapping' = [mapping EXCEPT ![p] = load_lexique(table).mapping]
    /\ todo' = [todo EXCEPT ![p] = Eligible(fs)]
    /\ pc' = [pc EXCEPT ![p] = "walk"]
    /\ UNCHANGED <<splitVars, normVars, extractVars, table, dry_run, deny, fs0, fs, cur,
                   renamed, skipped, errors, last, raisedOn>>

\* rename_file up to "if new_name == filename": no token, or the same name
VisitSkip(p) ==
    /\ pc[p] = "walk"
    /\ \E f \in todo[p] :
          LET tokens == Tokenize(f.base)
          IN  /\ tokens = <<>> \/ NewBase(tokens, mapping[p]) = f.base
              /\ todo' = [todo EXCEPT ![p] = @ \ {f}]
              /\ skipped' = [skipped EXCEPT ![p] = @ + 1]
              /\ last' = [last EXCEPT ![p] =
                            [path |-> f, status |-> "skipped", new_path |-> f]]
    /\ UNCHANGED <<splitVars, normVars, extractVars, table, dry_run, deny, fs0, fs, pc, mapping, cur,
                   renamed, errors, raisedOn>>

\* rename_file up to "new_path = dirpath / new_name": a new name
VisitNew(p) ==
    /\ pc[p] = "walk"
    /\ \E f \in todo[p] :
          LET tokens   == Tokenize(f.base)
              new_base == NewBase(tokens, mapping[p])
          IN  /\ tokens # <<>> /\ new_base # f.base
              /\ todo' = [todo EXCEPT ![p] = @ \ {f}]
              /\ cur' = [cur EXCEPT ![p] =
                           [path |-> f, new_base |-> new_base,
                            new_path |-> TargetPath(f, new_base), i |-> 0]]
    /\ pc' = [pc EXCEPT ![p] = "exists"]
    /\ UNCHANGED <<splitVars, normVars, extractVars, table, dry_run, deny, fs0, fs, mapping,
                   renamed, skipped, errors, last, raisedOn>>

\* "if new_path.exists():" is false
TargetFree(p) ==
    /\ pc[p] = "exists"
    /\ cur[p].new_path \notin DOMAIN fs
    /\ pc' = [pc EXCEPT ![p] = "rename"]
    /\ UNCHANGED <<splitVars, normVars, extractVars, table, dry_run, deny, fs0, fs, mapping, todo, cur,
                   renamed, skipped, errors, last, raisedOn>>

\* the probe starting at _v1
TargetTaken_FromOne(p) ==
    /\ pc[p] = "exists"
    /\ cur[p].new_path \in DOMAIN fs
    /\ cur' = [cur EXCEPT ![p].i = 1]
    /\ pc' = [pc EXCEPT ![p] = "probe"]
    /\ UNCHANGED <<splitVars, normVars, extractVars, table, dry_run, deny, fs0, fs, mapping, todo,
                   renamed, skipped, errors, last, raisedOn>>

\* a taken target used as it is, without the probe
TargetTaken_NoProbe(p) ==
    /\ pc[p] = "exists"
    /\ cur[p].new_path \in DOMAIN fs
    /\ pc' = [pc EXCEPT ![p] = "rename"]
    /\ UNCHANGED <<splitVars, normVars, extractVars, table, dry_run, deny, fs0, fs, mapping, todo, cur,
                   renamed, skipped, errors, last, raisedOn>>

\* "if new_path.exists():" is true: i = 2
TargetTaken(p) ==
    /\ pc[p] = "exists"
    /\ cur[p].new_path \in DOMAIN fs
    /\ cur' = [cur EXCEPT ![p].i = 2]
    /\ pc' = [pc EXCEPT ![p] = "probe"]
    /\ UNCHANGED <<splitVars, normVars, extractVars, table, dry_run, deny, fs0, fs, mapping, todo,
                   renamed, skipped, errors, last, raisedOn>>

\* one turn of "while True:" whose candidate exists: i += 1
ProbeNext(p) ==
    /\ pc[p] = "probe"
    /\ Candidate(cur[p].path, cur[p].new_base, cur[p].i) \in DOMAIN fs
    /\ cur' = [cur EXCEPT ![p].i = @ + 1]
    /\ UNCHANGED <<splitVars, normVars, extractVars, table, dry_run, deny, fs0, fs, pc, mapping, todo,
                   renamed, skipped, errors, last, raisedOn>>

\* a probe that takes its candidate without testing that it exists
ProbeFound_Unchecked(p) ==
    /\ pc[p] = "probe"
    /\ cur' = [cur EXCEPT ![p].new_path =
                  Candidate(cur[p].path, cur[p].new_base, cur[p].i)]
    /\ pc' = [pc EXCEPT ![p] = "rename"]
    /\ UNCHANGED <<splitVars, normVars, extractVars, table, dry_run, deny, fs0, fs, mapping, todo,
                   renamed, skipped, errors, last, raisedOn>>

\* the turn whose candidate does not exist: new_path = candidate; break
ProbeFound(p) ==
    /\ pc[p] = "probe"
    /\ Candidate(cur[p].path, cur[p].new_base, cur[p].i) \notin DOMAIN fs
    /\ cur' = [cur EXCEPT ![p].new_path =
                  Candidate(cur[p].path, cur[p].new_base, cur[p].i)]
    /\ pc' = [pc EXCEPT ![p] = "rename"]
    /\ UNCHANGED <<splitVars, normVars, extractVars, table, dry_run, deny, fs0, fs, mapping, todo,
                   renamed, skipped, errors, last, raisedOn>>

\* a simulation that renames all the same
RenameDry_Renames(p) ==
    /\ pc[p] = "rename"
    /\ dry_run
    /\ fs' = RenameIn(fs, cur[p].path, cur[p].new_path)
    /\ renamed' = [renamed EXCEPT ![p] = @ + 1]
    /\ last' = [last EXCEPT ![p] =
                  [path |-> cur[p].path, status |-> "renamed",
                   new_path |-> cur[p].new_path]]
    /\ cur' = [cur EXCEPT ![p] = NoCur]
    /\ pc' = [pc EXCEPT ![p] = "walk"]
    /\ UNCHANGED <<splitVars, normVars, extractVars, table, dry_run, deny, fs0, mapping, todo,
                   skipped, errors, raisedOn>>

\* "if dry_run: return 'renamed'"
RenameDry(p) ==
    /\ pc[p] = "rename"
    /\ dry_run
    /\ renamed' = [renamed EXCEPT ![p] = @ + 1]
    /\ last' = [last EXCEPT ![p] =
                  [path |-> cur[p].path, status |-> "renamed",
                   new_path |-> cur[p].new_path]]
    /\ cur' = [cur EXCEPT ![p] = NoCur]
    /\ pc' = [pc EXCEPT ![p] = "walk"]
    /\ UNCHANGED <<splitVars, normVars, extractVars, table, dry_run, deny, fs0, fs, mapping, todo,
                   skipped, errors, raisedOn>>

\* path.rename(new_path) raises
RenameRaises(files, denied, path) ==
    IF path \notin DOMAIN files THEN TRUE ELSE files[path] \in denied

\* path.rename(new_path); return "renamed"
RenameDone(p) ==
    /\ pc[p] = "rename"
    /\ ~dry_run
    /\ ~RenameRaises(fs, deny, cur[p].path)
    /\ fs' = RenameIn(fs, cur[p].path, cur[p].new_path)
    /\ renamed' = [renamed EXCEPT ![p] = @ + 1]
    /\ last' = [last EXCEPT ![p] =
                  [path |-> cur[p].path, status |-> "renamed",
                   new_path |-> cur[p].new_path]]
    /\ cur' = [cur EXCEPT ![p] = NoCur]
    /\ pc' = [pc EXCEPT ![p] = "walk"]
    /\ UNCHANGED <<splitVars, normVars, extractVars, table, dry_run, deny, fs0, mapping, todo,
                   skipped, errors, raisedOn>>

\* the exception of path.rename leaving rename_with_lexique
RenameError_Propagates(p) ==
    /\ pc[p] = "rename"
    /\ ~dry_run
    /\ RenameRaises(fs, deny, cur[p].path)
    /\ raisedOn' = raisedOn \cup {cur[p].path}
    /\ pc' = [pc EXCEPT ![p] = "raised"]
    /\ UNCHANGED <<splitVars, normVars, extractVars, table, dry_run, deny, fs0, fs, mapping, todo, cur,
                   renamed, skipped, errors, last>>

\* path.rename(new_path) raises: "except Exception: errors += 1"
RenameError(p) ==
    /\ pc[p] = "rename"
    /\ ~dry_run
    /\ RenameRaises(fs, deny, cur[p].path)
    /\ errors' = [errors EXCEPT ![p] = @ + 1]
    /\ raisedOn' = raisedOn \cup {cur[p].path}
    /\ last' = [last EXCEPT ![p] =
                  [path |-> cur[p].path, status |-> "error",
                   new_path |-> cur[p].new_path]]
    /\ cur' = [cur EXCEPT ![p] = NoCur]
    /\ pc' = [pc EXCEPT ![p] = "walk"]
    /\ UNCHANGED <<splitVars, normVars, extractVars, table, dry_run, deny, fs0, fs, mapping, todo,
                   renamed, skipped>>

\* the walk is over: return renamed, skipped, errors
Finish(p) ==
    /\ pc[p] = "walk"
    /\ todo[p] = {}
    /\ pc' = [pc EXCEPT ![p] = "done"]
    /\ UNCHANGED <<splitVars, normVars, extractVars, table, dry_run, deny, fs0, fs, mapping, todo, cur,
                   renamed, skipped, errors, last, raisedOn>>

Next ==
    \E p \in Procs :
        \/ LoadRaise(p)
        \/ LoadOk(p)
        \/ VisitSkip(p)
        \/ VisitNew(p)
        \/ TargetFree(p)
        \/ TargetTaken(p)
        \/ ProbeNext(p)
        \/ ProbeFound(p)
        \/ RenameDry(p)
        \/ RenameDone(p)
        \/ RenameError(p)
        \/ Finish(p)

Spec == Init /\ [][Next]_vars

\* two files with the same target under TableAcme, the target and its _v2
RacePaths ==
    { InRoot(JoinUnderscore(<<TokCode, <<"A">>, TokYear>>), Pdf),
      InRoot(JoinUnderscore(<<TokCode, TokX, TokYear>>), Pdf),
      InRoot(NameTarget, Pdf),
      InRoot(NameTarget \o <<"_", "v", "2">>, Pdf) }

RaceDirs == {S \in SUBSET RacePaths : Cardinality(S) <= MaxFiles}

\* one pass, or two passes started over the same directory tree with the
\* same lexicon, their steps interleaved
RaceInit ==
    /\ SplitIdle
    /\ NormIdle
    /\ ExtractIdle
    /\ table \in {TableAcme, TableNoRows}
    /\ dry_run \in BOOLEAN
    /\ deny = {}
    /\ \E S \in RaceDirs : fs0 = [q \in S |-> q]
    /\ \E running \in {{1}, {1, 2}} : InitPass(running)

RaceSpec == RaceInit /\ [][Next]_vars

\* names with and without a year, and their targets under TableAcme
AgainPaths ==
    { InRoot(JoinUnderscore(<<TokCode, TokX>>), Pdf),
      InRoot(JoinUnderscore(<<TokCode, AcmeStore>>), Pdf),
      InRoot(JoinUnderscore(<<TokCode, TokX, TokYear>>), Pdf),
      InRoot(NameTarget, Pdf) }

AgainDirs == {S \in SUBSET AgainPaths : Cardinality(S) <= MaxFiles}

\* one pass is started; the second invocation waits for it to return
AgainInit ==
    /\ SplitIdle
    /\ NormIdle
    /\ ExtractIdle
    /\ table \in {TableAcme, TableNoRows}
    /\ dry_run \in BOOLEAN
    /\ \E S \in AgainDirs :
          /\ fs0 = [q \in S |-> q]
          /\ deny \in {{}} \cup {{q} : q \in S}
    /\ InitPass({1})

\* rename_with_lexique is called again, with the same arguments, after the
\* first call returned
SecondPass ==
    /\ pc[1] = "done"
    /\ pc[2] = "idle"
    /\ pc' = [pc EXCEPT ![2] = "start"]
    /\ UNCHANGED <<splitVars, normVars, extractVars, table, dry_run, deny, fs0, fs, mapping, todo, cur,
                   renamed, skipped, errors, last, raisedOn>>

AgainNext == Next \/ SecondPass

AgainSpec == AgainInit /\ [][AgainNext]_vars

(***************************************************************************)
(* split_and_process: the routing of the pages of one PDF.  A page is the  *)
(* PageInfo extract_fields_from_text returned for it; a field that is None *)
(* is NONE.  Files are named by their file name in out_dir or errors_dir.  *)
(***************************************************************************)
MaxPages == 2

NONE == <<"None">>

\* truth value of an Optional[str]
Present(v) == v # NONE /\ v # <<>>

\* "DÉSIGNATION" and "DESIGNATION" of the two startswith tests
DesignationAccent ==
    <<"D", "Eacute", "S", "I", "G", "N", "A", "T", "I", "O", "N">>

DesignationPlain == <<"D", "E", "S", "I", "G", "N", "A", "T", "I", "O", "N">>

\* re.sub(r"[^\w\s-]", "", name)
RECURSIVE KeepWordSpaceDash(_)
KeepWordSpaceDash(s) ==
    IF s = <<>> THEN <<>>
    ELSE IF IsWord(Head(s)) \/ IsSpace(Head(s)) \/ Head(s) = "-"
         THEN <<Head(s)>> \o KeepWordSpaceDash(Tail(s))
         ELSE KeepWordSpaceDash(Tail(s))

sanitize(name) ==
    StripChars(CollapseSpaces(KeepWordSpaceDash(Strip(name))), {" ", ".", "_", "-"})

DotPdf == <<".", "p", "d", "f">>

\* the name of unique_path(dir / (stem + ".pdf")) given the names in dir
unique_path(files, stem) ==
    IF stem \o DotPdf \notin files THEN stem \o DotPdf
    ELSE LET Cand(i) == stem \o <<" ", "(">> \o Decimal(i) \o <<")">> \o DotPdf
             i == CHOOSE k \in 1..(Cardinality(files) + 1) :
                     /\ Cand(k) \notin files
                     /\ \A j \in 1..(k - 1) : Cand(j) \in files
         IN  Cand(i)

\* the "Securite supplementaire" test nulling info.nom
DropDesignation(info) ==
    IF Present(info.nom)
         /\ (StartsWith(Upper(Strip(info.nom)), DesignationAccent)
               \/ StartsWith(Upper(Strip(info.nom)), DesignationPlain))
    THEN [info EXCEPT !.nom = NONE]
    ELSE info

\* info.op and info.code and info.nom and info.an
AllFields(info) ==
    Present(info.op) /\ Present(info.code) /\ Present(info.nom) /\ Present(info.an)

\* f"ALPHA_OP{sanitize(op)}_{sanitize(code)}_{sanitize(nom)}_{sanitize(an)}"
ComposedBase(info) ==
    <<"A", "L", "P", "H", "A", "_", "O", "P">> \o sanitize(info.op) \o <<"_">>
      \o sanitize(info.code) \o <<"_">> \o sanitize(info.nom) \o <<"_">>
      \o sanitize(info.an)

\* pdf_path.stem
PdfStem == <<"D">>

\* f"{pdf_path.stem}_page{i+1}"
ErrorBase(i) == PdfStem \o <<"_", "p", "a", "g", "e">> \o Decimal(i + 1)

\* info.x or ""
OrEmpty(v) == IF Present(v) THEN v ELSE <<>>

OpAB == <<"A", "B", "1", "2">>

Acme == <<"A", "C", "M", "E">>

FullInfo(nom) == [op |-> OpAB, code |-> TokCode, nom |-> nom, an |-> TokYear]

\* names the extractor can return: a client, a name sanitize changes, and
\* table headers in several spellings (the last with a combining accent)
NomVals ==
    { Acme,
      <<"D", ".", "S", ".">>,
      DesignationPlain \o <<" ", "H", "T">>,
      DesignationAccent,
      <<"D", "eacute", "s", "i", "g", "n", "a", "t", "i", "o", "n">>,
      <<"d", "e", "s", "i", "g", "n", "a", "t", "i", "o", "n">>,
      <<"D", "E", "acute", "S", "I", "G", "N", "A", "T", "I", "O", "N">> }

PageInfos ==
    {FullInfo(n) : n \in NomVals}
      \cup { [FullInfo(Acme) EXCEPT !.op = NONE],
             [FullInfo(Acme) EXCEPT !.code = NONE],
             [FullInfo(Acme) EXCEPT !.nom = NONE],
             [FullInfo(Acme) EXCEPT !.an = NONE],
             [op |-> NONE, code |-> NONE, nom |-> NONE, an |-> NONE] }

\* the rename pass is not running
PassIdle ==
    /\ table = TableUnreadable
    /\ deny = {}
    /\ fs0 = [q \in {} |-> NoPath]
    /\ InitPass({})

SplitInit ==
    /\ PassIdle
    /\ NormIdle
    /\ ExtractIdle
    /\ dry_run \in BOOLEAN
    /\ pdf_ok \in BOOLEAN
    /\ pages \in UNION {[1..n -> PageInfos] : n \in 0..MaxPages}
    /\ page_i = 0
    /\ out0 \in {{}, {ComposedBase(FullInfo(Acme)) \o DotPdf}}
    /\ err0 \in {{}, {ErrorBase(0) \o DotPdf}}
    /\ out_files = out0
    /\ err_files = err0
    /\ log = <<>>
    /\ spc = "start"

Row(info, out, action, note) ==
    [op |-> info.op, code |-> info.code, nom |-> info.nom, an |-> info.an,
     out |-> out, action |-> action, note |-> note]

EmptyInfo == [op |-> <<>>, code |-> <<>>, nom |-> <<>>, an |-> <<>>]

\* PdfReader raises: one ERROR row, return
SplitOpenFail ==
    /\ spc = "start"
    /\ ~pdf_ok
    /\ log' = Append(log, Row(EmptyInfo, <<>>, "ERROR", "Lecture PDF"))
    /\ spc' = "done"
    /\ UNCHANGED <<passVars, normVars, extractVars, pdf_ok, pages, page_i, out_files, err_files, out0, err0>>

\* n == 0: one ERROR row, return
SplitEmpty ==
    /\ spc = "start"
    /\ pdf_ok
    /\ Len(pages) = 0
    /\ log' = Append(log, Row(EmptyInfo, <<>>, "ERROR", "PDF vide"))
    /\ spc' = "done"
    /\ UNCHANGED <<passVars, normVars, extractVars, pdf_ok, pages, page_i, out_files, err_files, out0, err0>>

\* the loop over the pages starts
SplitOpen ==
    /\ spc = "start"
    /\ pdf_ok
    /\ Len(pages) > 0
    /\ spc' = "pages"
    /\ UNCHANGED <<passVars, normVars, extractVars, pdf_ok, pages, page_i, out_files, err_files, out0, err0,
                   log>>

\* a page with a field missing: to errors_dir, row ERROR
PageError ==
    /\ spc = "pages"
    /\ page_i < Len(pages)
    /\ LET info    == DropDesignation(pages[page_i + 1])
           out_err == unique_path(err_files, ErrorBase(page_i))
       IN  /\ ~AllFields(info)
           /\ err_files' = IF dry_run THEN err_files ELSE err_files \cup {out_err}
           /\ log' = Append(log,
                            Row([op |-> OrEmpty(info.op), code |-> OrEmpty(info.code),
                                 nom |-> OrEmpty(info.nom), an |-> OrEmpty(info.an)],
                                out_err, "ERROR", "Champs manquants"))
    /\ page_i' = page_i + 1
    /\ UNCHANGED <<passVars, normVars, extractVars, pdf_ok, pages, out_files, out0, err0, spc>>

\* a page with its four fields: to out_dir, row RENAMED or DRY-RUN
PageOk ==
    /\ spc = "pages"
    /\ page_i < Len(pages)
    /\ LET info   == DropDesignation(pages[page_i + 1])
           out_ok == unique_path(out_files, ComposedBase(info))
       IN  /\ AllFields(info)
           /\ out_files' = IF dry_run THEN out_files ELSE out_files \cup {out_ok}
           /\ log' = Append(log,
                            Row(info, out_ok,
                                IF dry_run THEN "DRY-RUN" ELSE "RENAMED",
                                "PDF text v20251118-2"))
    /\ page_i' = page_i + 1
    /\ UNCHANGED <<passVars, normVars, extractVars, pdf_ok, pages, err_files, out0, err0, spc>>

\* open(..., "wb") or writer.write raises: the exception leaves the function
PageWriteRaises ==
    /\ spc = "pages"
    /\ page_i < Len(pages)
    /\ ~dry_run
    /\ spc' = "raised"
    /\ UNCHANGED <<passVars, normVars, extractVars, pdf_ok, pages, page_i, out_files, err_files, out0, err0,
                   log>>

\* the loop is over
SplitFinish ==
    /\ spc = "pages"
    /\ page_i = Len(pages)
    /\ spc' = "done"
    /\ UNCHANGED <<passVars, normVars, extractVars, pdf_ok, pages, page_i, out_files, err_files, out0, err0,
                   log>>

SplitNext ==
    \/ SplitOpenFail
    \/ SplitEmpty
    \/ SplitOpen
    \/ PageError
    \/ PageOk
    \/ PageWriteRaises
    \/ SplitFinish

SplitSpec == SplitInit /\ [][SplitNext]_vars

(***************************************************************************)
(* normalize_text called on a text, and again on its own result.           *)
(***************************************************************************)
MaxLen == 5

\* the characters of the texts: a letter, a precomposed accented letter, a
\* combining accent, a space, the parentheses and a punctuation mark
TextChars == {"a", "eacute", "acute", " ", "(", ")", "!"}

Texts == UNION {[1..n -> TextChars] : n \in 0..MaxLen}

NormInit ==
    /\ PassIdle
    /\ SplitIdle
    /\ ExtractIdle
    /\ dry_run = FALSE
    /\ text \in Texts
    /\ norm = <<>>
    /\ again = <<>>
    /\ npc = "arg"

\* normalize_text(txt)
NormalizeOnce ==
    /\ npc = "arg"
    /\ norm' = normalize_text(text)
    /\ npc' = "once"
    /\ UNCHANGED <<passVars, splitVars, extractVars, text, again>>

\* normalize_text applied to the result
NormalizeTwice ==
    /\ npc = "once"
    /\ again' = normalize_text(norm)
    /\ npc' = "twice"
    /\ UNCHANGED <<passVars, splitVars, extractVars, text, norm>>

NormNext == NormalizeOnce \/ NormalizeTwice

NormSpec == NormInit /\ [][NormNext]_vars

(***************************************************************************)
(* extract_fields_from_text: the four fields of a page from its text.      *)
(***************************************************************************)
NL == "NL"

\* \w on the page text (the ordinal indicator is a letter)
IsWordChar(c) == IsWord(c) \/ c = "ordm"

\* \s on the page text
IsSpaceChar(c) == IsSpace(c) \/ c = NL

\* \b between s[k] and s[k + 1]
Boundary(s, k) ==
    (k >= 1 /\ k <= Len(s) /\ IsWordChar(s[k]))
      # (k + 1 >= 1 /\ k + 1 <= Len(s) /\ IsWordChar(s[k + 1]))

\* the length of the run of whitespace of s that starts at p
RECURSIVE SpacesFrom(_, _)
SpacesFrom(s, p) ==
    IF p > Len(s) \/ ~IsSpaceChar(s[p]) THEN 0 ELSE 1 + SpacesFrom(s, p + 1)

\* the length of the run of digits of s that starts at p
RECURSIVE DigitsFrom(_, _)
DigitsFrom(s, p) ==
    IF p > Len(s) \/ s[p] \notin Digits THEN 0 ELSE 1 + DigitsFrom(s, p + 1)

\* [A-Z0-9] under re.IGNORECASE
IsAlnum(c) == c \in Digits \/ UpperChar(c) \in UpperLetters \ {"Eacute"}

\* the length of the run of [A-Z0-9] of s that starts at p
RECURSIVE AlnumFrom(_, _)
AlnumFrom(s, p) ==
    IF p > Len(s) \/ ~IsAlnum(s[p]) THEN 0 ELSE 1 + AlnumFrom(s, p + 1)

\* the literal w is at p in s, letter case ignored
MatchesAt(s, p, w) ==
    /\ p >= 1
    /\ p + Len(w) - 1 <= Len(s)
    /\ Upper(SubSeq(s, p, p + Len(w) - 1)) = Upper(w)

\* OP[ÉE]RATION
OpWords ==
    { <<"O", "P", "E", "R", "A", "T", "I", "O", "N">>,
      <<"O", "P", "Eacute", "R", "A", "T", "I", "O", "N">> }

\* group 1 of RE_OP matched at p, NONE without a match at p
OpAt(s, p) ==
    IF ~\E w \in OpWords : MatchesAt(s, p, w) THEN NONE
    ELSE LET n == p + 9 + SpacesFrom(s, p + 9)
         IN  IF n > Len(s) \/ UpperChar(s[n]) # "N" THEN NONE
             ELSE LET m == IF n + 1 <= Len(s) /\ s[n + 1] \in {"deg", "ordm"}
                           THEN n + 2 ELSE n + 1
                      t == m + SpacesFrom(s, m)
                  IN  IF AlnumFrom(s, t) = 0 THEN NONE
                      ELSE SubSeq(s, t, t + AlnumFrom(s, t) - 1)

\* RE_OP.search(txt): the group of the leftmost match
SearchOp(s) ==
    IF \E p \in 1..Len(s) : OpAt(s, p) # NONE
    THEN OpAt(s, CHOOSE p \in 1..Len(s) :
                    /\ OpAt(s, p) # NONE
                    /\ \A q \in 1..(p - 1) : OpAt(s, q) = NONE)
    ELSE NONE

\* the starts of the matches of RE_AN, \b(20\d{2})\b
YearStarts(s) ==
    { p \in 1..Len(s) :
        /\ DigitsFrom(s, p) = 4
        /\ s[p] = "2" /\ s[p + 1] = "0"
        /\ Boundary(s, p - 1) /\ Boundary(s, p + 3) }

\* str(max(years)) if years else None
MaxYear(s) ==
    IF YearStarts(s) = {} THEN NONE
    ELSE LET p == CHOOSE q \in YearStarts(s) :
                     \A r \in YearStarts(s) :
                        IntOf(SubSeq(s, r, r + 3)) <= IntOf(SubSeq(s, q, q + 3))
         IN  SubSeq(s, p, p + 3)

Codification == <<"C", "o", "d", "i", "f", "i", "c", "a", "t", "i", "o", "n">>

\* the rest of RE_CODE, :\s*/\s*(\d{5}), matched with its ":" at q: the
\* start of the group, 0 without a match
CodeAfterColon(s, q) ==
    IF q > Len(s) \/ s[q] # ":" THEN 0
    ELSE LET a == q + 1 + SpacesFrom(s, q + 1)
         IN  IF a > Len(s) \/ s[a] # "/" THEN 0
             ELSE LET b == a + 1 + SpacesFrom(s, a + 1)
                  IN  IF DigitsFrom(s, b) >= 5 THEN b ELSE 0

\* the start of group 1 of RE_CODE matched at p, 0 without a match at p:
\* .*? stays on the line and stops at the first ":" the rest matches from
LabelCodeAt(s, p) ==
    IF ~MatchesAt(s, p, Codification) THEN 0
    ELSE LET Ok(q) == /\ CodeAfterColon(s, q) > 0
                      /\ \A k \in (p + 12)..(q - 1) : s[k] # NL
         IN  IF \E q \in (p + 12)..Len(s) : Ok(q)
             THEN CodeAfterColon(s, CHOOSE q \in (p + 12)..Len(s) :
                                       /\ Ok(q)
                                       /\ \A r \in (p + 12)..(q - 1) : ~Ok(r))
             ELSE 0

\* RE_CODE.search(txt): the group of the leftmost match
SearchLabelCode(s) ==
    IF \E p \in 1..Len(s) : LabelCodeAt(s, p) > 0
    THEN LET p == CHOOSE q \in 1..Len(s) :
                     /\ LabelCodeAt(s, q) > 0
                     /\ \A r \in 1..(q - 1) : LabelCodeAt(s, r) = 0
         IN  SubSeq(s, LabelCodeAt(s, p), LabelCodeAt(s, p) + 4)
    ELSE NONE

\* the starts of the matches of \b\d{5}\b (RE_CODE5, RE_POSTAL)
FiveDigitStarts(s) ==
    {p \in 1..Len(s) : DigitsFrom(s, p) = 5 /\ Boundary(s, p - 1) /\ Boundary(s, p + 4)}

\* RE_CODE5.search(txt): the group of the leftmost match
SearchCode5(s) ==
    IF FiveDigitStarts(s) = {} THEN NONE
    ELSE LET p == CHOOSE q \in FiveDigitStarts(s) : \A r \in FiveDigitStarts(s) : q <= r
         IN  SubSeq(s, p, p + 4)

\* the code: the labelled form, else the first standalone 5-digit number
ExtractCode(s) ==
    IF SearchLabelCode(s) # NONE THEN SearchLabelCode(s) ELSE SearchCode5(s)

\* txt.splitlines()
RECURSIVE SplitLines(_)
SplitLines(s) ==
    IF s = <<>> THEN <<>>
    ELSE LET k == IndexOf(s, NL)
         IN  IF k = 0 THEN <<s>>
             ELSE <<SubSeq(s, 1, k - 1)>> \o SplitLines(SubSeq(s, k + 1, Len(s)))

\* l.strip()
StripLine(l) == StripChars(l, Whitespace \cup {NL})

\* [l.strip() for l in ls if l.strip()]
RECURSIVE StrippedLines(_)
StrippedLines(ls) ==
    IF ls = <<>> THEN <<>>
    ELSE IF StripLine(Head(ls)) = <<>> THEN StrippedLines(Tail(ls))
    ELSE <<StripLine(Head(ls))>> \o StrippedLines(Tail(ls))

Lines(s) == StrippedLines(SplitLines(s))

\* l0.upper() in ("G20", "G 20", "G‑20", "G–20")
Banners ==
    { <<"G", "2", "0">>, <<"G", " ", "2", "0">>,
      <<"G", "nbhyphen", "2", "0">>, <<"G", "endash", "2", "0">> }

has_g20(l0) == Upper(l0) \in Banners

\* [A-Z0-9À-ÖØ-Ý]
IsCapital(c) == c \in UpperLetters \cup Digits

\* re.fullmatch(r"[A-Z0-9À-ÖØ-Ý '&()\-./:*]{2,}", l0)
NameLine(l0) ==
    /\ Len(l0) >= 2
    /\ \A k \in 1..Len(l0) :
          IsCapital(l0[k]) \/ l0[k] \in {" ", "'", "&", "(", ")", "-", ".", "/", ":", "*"}

\* the words of RE_STREET_HINT
StreetWords ==
    { <<"R", "U", "E">>, <<"A", "V", "E", "N", "U", "E">>, <<"A", "V">>,
      <<"A", "V", "E">>, <<"B", "D">>,
      <<"B", "O", "U", "L", "E", "V", "A", "R", "D">>,
      <<"P", "L", "A", "C", "E">>, <<"C", "H", "E", "M", "I", "N">>,
      <<"I", "M", "P", "A", "S", "S", "E">>,
      <<"A", "L", "L", "E", "E">>, <<"A", "L", "L", "E", "E", "S">>,
      <<"A", "L", "L", "Eacute", "E">>, <<"A", "L", "L", "Eacute", "E", "S">>,
      <<"Q", "U", "A", "I">>, <<"R", "O", "U", "T", "E">>, <<"P", "L">>,
      <<"S", "Q", "U", "A", "R", "E">>, <<"P", "A", "S", "S", "A", "G", "E">>,
      <<"P", "R", "O", "M", "E", "N", "A", "D", "E">>, <<"V", "O", "I", "E">>,
      <<"R", "O", "N", "D", "P", "O", "I", "N", "T">>,
      <<"R", "O", "N", "D", " ", "P", "O", "I", "N", "T">>,
      <<"R", "O", "N", "D", "-", "P", "O", "I", "N", "T">>,
      <<"C", ".", "C">>, <<"C", "C">> }

\* RE_STREET_HINT.search(s) is not None
HasStreetHint(s) ==
    \E w \in StreetWords : \E p \in 1..Len(s) :
        /\ MatchesAt(s, p, w)
        /\ Boundary(s, p - 1)
        /\ Boundary(s, p + Len(w) - 1)

\* parts[0].isdigit(), parts being s.split()
FirstTokenIsDigit(s) ==
    LET n == DigitsFrom(s, 1)
    IN  n >= 1 /\ (n = Len(s) \/ IsSpaceChar(s[n + 1]))

\* re.match(r"^\d{1,4}[A-Z]", s, re.IGNORECASE)
NumberThenLetter(s) ==
    LET n == DigitsFrom(s, 1)
    IN  /\ n >= 1 /\ n <= 4
        /\ n < Len(s)
        /\ UpperChar(s[n + 1]) \in UpperLetters \ {"Eacute"}

is_street_line(line) ==
    LET s == StripLine(line)
    IN  /\ s # <<>>
        /\ FirstTokenIsDigit(s) \/ NumberThenLetter(s) \/ HasStreetHint(s)

ParisLe == <<"p", "a", "r", "i", "s", " ", "l", "e">>

\* RE_POSTAL.search(l) is not None or l.lower().startswith("paris le")
EndLine(l) == FiveDigitStarts(l) # {} \/ StartsWith(Lower(l), ParisLe)

\* l0_ok
FirstLineOk(l0) == has_g20(l0) \/ NameLine(l0)

\* the 4-line test on the window starting at index i (from 0)
Standard(lines, i) ==
    /\ FirstLineOk(lines[i + 1])
    /\ is_street_line(lines[i + 3])
    /\ EndLine(lines[i + 4])

\* the 5-line test on the window starting at index i (from 0)
Relaxed(lines, i) ==
    /\ i + 4 < Len(lines)
    /\ FirstLineOk(lines[i + 1])
    /\ is_street_line(lines[i + 3]) \/ is_street_line(lines[i + 4])
    /\ EndLine(lines[i + 5])

\* range(0, max(0, len(lines) - 3))
WindowStarts(lines) == 0..(Len(lines) - 4)

\* the name of the window starting at i: the line under a banner, else the
\* first line
WindowName(lines, i) ==
    IF has_g20(lines[i + 1]) THEN lines[i + 2] ELSE lines[i + 1]

\* mutant of AddressName: the 4-line test is tried on every window before
\* the 5-line test is tried on any
AddressName_StandardFirst(lines) ==
    IF \E i \in WindowStarts(lines) : Standard(lines, i)
    THEN WindowName(lines, CHOOSE i \in WindowStarts(lines) :
                              /\ Standard(lines, i)
                              /\ \A j \in 0..(i - 1) : ~Standard(lines, j))
    ELSE IF \E i \in WindowStarts(lines) : Relaxed(lines, i)
    THEN WindowName(lines, CHOOSE i \in WindowStarts(lines) :
                              /\ Relaxed(lines, i)
                              /\ \A j \in 0..(i - 1) : ~Relaxed(lines, j))
    ELSE NONE

\* the loop over the windows: the name of the first window that passes the
\* 4-line or the 5-line test, NONE when the loop ends without a break
AddressName(lines) ==
    IF \E i \in WindowStarts(lines) : Standard(lines, i) \/ Relaxed(lines, i)
    THEN WindowName(lines, CHOOSE i \in WindowStarts(lines) :
                              /\ Standard(lines, i) \/ Relaxed(lines, i)
                              /\ \A j \in 0..(i - 1) :
                                    ~(Standard(lines, j) \/ Relaxed(lines, j)))
    ELSE NONE

\* re.fullmatch(r"[A-Z0-9À-ÖØ-Ý '()\-.,/*:/]+", ln) and not ln.isdigit(),
\* for a line of 3 characters or more
Plausible(ln) ==
    /\ Len(ln) >= 3
    /\ \A k \in 1..Len(ln) :
          IsCapital(ln[k]) \/ ln[k] \in {" ", "'", "(", ")", "-", ".", ",", "/", "*", ":"}
    /\ \E k \in 1..Len(ln) : ln[k] \notin Digits

\* lines[:120]
FallbackLimit == 120

\* the fallback: the first of the longest plausible lines, or the line above
\* it when it starts with a digit
FallbackName(lines) ==
    LET top == 1..(IF Len(lines) < FallbackLimit THEN Len(lines) ELSE FallbackLimit)
    IN  IF \E k \in top : Plausible(lines[k])
        THEN LET b == CHOOSE k \in top :
                         /\ Plausible(lines[k])
                         /\ \A j \in top : Plausible(lines[j]) =>
                               \/ Len(lines[j]) < Len(lines[k])
                               \/ Len(lines[j]) = Len(lines[k]) /\ j >= k
             IN  IF lines[b][1] \in Digits /\ b > 1 THEN lines[b - 1] ELSE lines[b]
        ELSE NONE

\* the name: the address block, else the fallback
ExtractName(lines) ==
    IF Present(AddressName(lines)) THEN AddressName(lines) ELSE FallbackName(lines)

extract_fields_from_text(s) ==
    [op |-> SearchOp(s), code |-> ExtractCode(s), nom |-> ExtractName(Lines(s)),
     an |-> MaxYear(s)]

MaxLines == 5

\* the lines of the pages the name is looked for in: a banner, a name, a
\* street, a complement, a postal line and a date line
LinePool ==
    { <<"G", "2", "0">>,
      Acme,
      <<"5", " ", "R", "U", "E", " ", "A">>,
      <<"B", "A", "T", " ", "B">>,
      <<"7", "5", "0", "0", "1", " ", "P", "A", "R", "I", "S">>,
      <<"P", "a", "r", "i", "s", " ", "l", "e", " ", "5">> }

\* "\n".join(ls)
RECURSIVE JoinLines(_)
JoinLines(ls) ==
    IF ls = <<>> THEN <<>>
    ELSE IF Len(ls) = 1 THEN Head(ls)
    ELSE Head(ls) \o <<NL>> \o JoinLines(Tail(ls))

NameTexts == {JoinLines(ls) : ls \in UNION {[1..n -> LinePool] : n \in 0..MaxLines}}

Operation == <<"O", "P", "E", "R", "A", "T", "I", "O", "N">>

\* spellings of the operation label
LabelWords ==
    { Operation,
      <<"O", "P", "Eacute", "R", "A", "T", "I", "O", "N">>,
      <<"o", "p", "eacute", "r", "a", "t", "i", "o", "n">>,
      <<"O", "p", "e", "r", "a", "t", "i", "o", "n">>,
      <<"O", "P", "E", "acute", "R", "A", "T", "I", "O", "N">> }

LabelMarks ==
    {<<"N">>, <<"N", "deg">>, <<"N", "ordm">>, <<"N", "o">>, <<"n", "deg">>}

Gaps == {<<>>, <<" ">>}

OpTokens == {OpAB, <<"7">>}

OpTexts ==
    { pre \o w \o g1 \o m \o g2 \o t \o post :
        pre \in {<<>>, <<"x", " ">>, Operation \o <<" ", "N", "deg", " ", "X", "9", NL>>},
        w \in LabelWords, g1 \in Gaps, m \in LabelMarks, g2 \in Gaps,
        t \in OpTokens, post \in {<<>>, <<" ", "x">>} }

\* spellings of the code label, the last two without a ":" on its line
CodeLabels ==
    { <<>>,
      Codification \o <<" ", ":", " ", "/", " ">>,
      Upper(Codification) \o <<" ", "c", "l", "i", "e", "n", "t", " ", ":", "/">>,
      Codification \o <<":", " ", "x", " ", ":", " ", "/", NL>>,
      Codification \o <<NL, ":", " ", "/", " ">>,
      Codification \o <<" ">> }

CodeRuns ==
    { <<"1", "2", "3", "4", "5">>, <<"1", "2", "3", "4", "5", "6">>,
      <<"1", "2", "3", "4">>, <<"1", "2", "3", "4", "5", "x">> }

CodeTexts ==
    { pre \o l \o r \o post :
        pre \in { <<>>, <<"5", "4", "3", "2", "1", " ">>,
                  <<"x", "5", "4", "3", "2", "1", " ">>,
                  <<"5", "4", "3", "2", "1", "0", " ">> },
        l \in CodeLabels, r \in CodeRuns,
        post \in {<<>>, <<" ", "6", "7", "8", "9", "0">>, <<" ", "2", "0", "2", "3">>} }

PageTexts == NameTexts \cup OpTexts \cup CodeTexts

NoInfo == [op |-> NONE, code |-> NONE, nom |-> NONE, an |-> NONE]

ExtractInit ==
    /\ PassIdle
    /\ SplitIdle
    /\ NormIdle
    /\ dry_run = FALSE
    /\ page_txt \in PageTexts
    /\ fields = NoInfo
    /\ xpc = "call"

\* extract_fields_from_text(page_txt)
Extract ==
    /\ xpc = "call"
    /\ fields' = extract_fields_from_text(page_txt)
    /\ xpc' = "returned"
    /\ UNCHANGED <<passVars, splitVars, normVars, page_txt>>

ExtractNext == Extract

ExtractSpec == ExtractInit /\ [][ExtractNext]_vars

(***************************************************************************)
(* Properties.  The notions the statements use are defined here on their   *)
(* own, apart from the operators that model the code.                      *)
(***************************************************************************)
\* a rename_file call of invocation p has computed its new name and has not
\* returned yet
InCall(p) == pc[p] \in {"exists", "probe", "rename"}

\* the tokens of a base name: the pieces between underscores of the
\* normalized name
TokensOf(base) == SplitTokens(normalize_text(base))

\* index of the first token that is a key of m, 0 when there is none
FirstKey(tokens, m) ==
    LET K == {k \in 1..Len(tokens) : tokens[k] \in DOMAIN m}
    IN  IF K = {} THEN 0 ELSE CHOOSE k \in K : \A j \in K : k <= j

\* a 4-digit token whose value lies in [1900, 2100]
LooksLikeYear(t) ==
    /\ Len(t) = 4
    /\ \A k \in 1..4 : t[k] \in Digits
    /\ LET v == 1000 * DigitVal(t[1]) + 100 * DigitVal(t[2])
                  + 10 * DigitVal(t[3]) + DigitVal(t[4])
       IN  1900 <= v /\ v <= 2100

\* index of the last token that looks like a year, 0 when there is none
LastYear(tokens) ==
    LET Y == {k \in 1..Len(tokens) : LooksLikeYear(tokens[k])}
    IN  IF Y = {} THEN 0 ELSE CHOOSE k \in Y : \A j \in Y : j <= k

\* s with every run of underscores made one and the underscores at its
\* ends removed
Tidy(s) == StripChars(CollapseRuns(s, {"_"}, "_"), {"_"})

\* the only file of the directory is FACT_12345_2023_v1.pdf, the lexicon is
\* {"12345": "ACME STORE"} and the pass is over
FactDone ==
    /\ DOMAIN fs0 = {InRoot(NameFact, Pdf)}
    /\ table = TableAcme
    /\ pc[1] = "done"

NameFactClaimed ==
    <<"F", "A", "C", "T", "_">> \o TokCode
      \o <<"_", "A", "C", "M", "E", "_", "S", "T", "O", "R", "E", "_">> \o TokYear

NameFactActual ==
    <<"F", "A", "C", "T", "_">> \o TokCode \o <<"_">> \o AcmeStore \o <<"_">>
      \o TokYear \o <<"_", "v", "1">>

\* C1 as stated: FACT_12345_2023_v1.pdf under {"12345": "ACME STORE"} is
\* renamed to exactly FACT_12345_ACME_STORE_2023.pdf
C1_Original ==
    FactDone => /\ last[1].status = "renamed"
                /\ DOMAIN fs = {InRoot(NameFactClaimed, Pdf)}

\* C1 as amended: FACT_12345_2023_v1.pdf under {"12345": "ACME STORE"} is
\* renamed to exactly "FACT_12345_ACME STORE_2023_v1.pdf": the canonical
\* name is inserted as it is (its space kept) and the token after the year
\* is kept
C1_FactRenamed ==
    FactDone => /\ last[1].status = "renamed"
                /\ mapping[1] = (TokCode :> AcmeStore)
                /\ DOMAIN fs = {InRoot(NameFactActual, Pdf)}
                /\ fs[InRoot(NameFactActual, Pdf)] = InRoot(NameFact, Pdf)

C1_Witness == FactDone /\ last[1].path = InRoot(NameFact, Pdf)

\* the last rename_file call of invocation 1 was on a file none of whose
\* tokens is a key of the mapping
NoCodeCall ==
    /\ last[1].status # "none"
    /\ FirstKey(TokensOf(last[1].path.base), mapping[1]) = 0

\* C2 as stated: a file none of whose tokens is a key is 'skipped' and keeps
\* its name, whatever characters the name contains
C2_Original ==
    NoCodeCall => /\ last[1].status = "skipped"
                  /\ last[1].path \in DOMAIN fs

\* C2 as amended: for a file none of whose tokens is a key, the new base
\* name is the single-underscore join of the tokens of the normalized base
\* name; the file is 'skipped' and keeps its name exactly when it has no
\* token or that join is its base name, and is otherwise renamed to the join
C2_NoCodeNormalized ==
    NoCodeCall =>
        LET base   == last[1].path.base
            tokens == TokensOf(base)
        IN  IF tokens = <<>> \/ JoinUnderscore(tokens) = base
            THEN /\ last[1].status = "skipped"
                 /\ last[1].path \in DOMAIN fs
            ELSE /\ last[1].status \in {"renamed", "error"}
                 /\ last[1].new_path.dir = last[1].path.dir
                 /\ last[1].new_path.ext = last[1].path.ext
                 /\ \/ last[1].new_path.base = JoinUnderscore(tokens)
                    \/ /\ StartsWith(last[1].new_path.base,
                                     JoinUnderscore(tokens) \o <<"_", "v">>)
                       /\ TargetPath(last[1].path, JoinUnderscore(tokens))
                            \in DOMAIN fs
                 /\ (last[1].status = "renamed" /\ ~dry_run) =>
                        /\ last[1].path \notin DOMAIN fs
                        /\ last[1].new_path \in DOMAIN fs

\* a file with an accent and a stray underscore and no key has been renamed
C2_Witness ==
    /\ NoCodeCall
    /\ last[1].status = "renamed"
    /\ last[1].path.base = <<"_", "eacute">>
    /\ last[1].new_path.base = <<"e">>

\* the running call found a key at index c and a year at index y > c
CodeThenYear ==
    /\ InCall(1)
    /\ FirstKey(TokensOf(cur[1].path.base), mapping[1]) # 0
    /\ LastYear(TokensOf(cur[1].path.base))
         > FirstKey(TokensOf(cur[1].path.base), mapping[1])

\* tokens[0..c-1], the code, mapping[code], the year, tokens[y+1..]
CodeYearTokens(tokens, m) ==
    LET c == FirstKey(tokens, m)
        y == LastYear(tokens)
    IN  SubSeq(tokens, 1, c - 1) \o <<tokens[c], m[tokens[c]], tokens[y]>>
          \o SubSeq(tokens, y + 1, Len(tokens))

\* C3 as stated (where the canonical name is not empty): the new base name
\* is the single-underscore join of tokens[0..c-1], the code, mapping[code],
\* the year and tokens[y+1..]
C3_Original ==
    (CodeThenYear
       /\ \A k \in DOMAIN mapping[1] : mapping[1][k] # <<>>) =>
        cur[1].new_base =
            JoinUnderscore(CodeYearTokens(TokensOf(cur[1].path.base), mapping[1]))

\* C3 as amended: the new base name is that join with every run of
\* underscores made one and the underscores at its ends removed (the two
\* differ when mapping[code] is empty or has underscores at its ends or in
\* runs); the tokens strictly between c and y are not in it
C3_CodeYearJoin ==
    CodeThenYear =>
        cur[1].new_base =
            Tidy(JoinUnderscore(CodeYearTokens(TokensOf(cur[1].path.base),
                                               mapping[1])))

\* "X_12345_2101_2023_X" under {"12345": "ACME STORE"}: the token 2101
\* between the code and the year is gone
C3_Witness ==
    /\ CodeThenYear
    /\ cur[1].path.base = NameFull
    /\ cur[1].new_base = JoinUnderscore(<<TokX, TokCode, AcmeStore, TokYear, TokX>>)

\* the running call found a key at index c and no token looks like a year
CodeNoYear ==
    /\ InCall(1)
    /\ FirstKey(TokensOf(cur[1].path.base), mapping[1]) # 0
    /\ LastYear(TokensOf(cur[1].path.base)) = 0

\* C4: with a key at index c and no year token, the new name is made of
\* tokens[0..c-1], the code and mapping[code] only (joined as rename_file
\* joins tokens): nothing that followed the code is kept
C4_CodeOnly ==
    CodeNoYear =>
        LET tokens == TokensOf(cur[1].path.base)
            c      == FirstKey(tokens, mapping[1])
        IN  cur[1].new_base =
              Tidy(JoinUnderscore(SubSeq(tokens, 1, c - 1)
                                    \o <<tokens[c], mapping[1][tokens[c]]>>))

\* "X_12345_2101_X" (no year: 2101 is out of range) becomes
\* "X_12345_ACME STORE"
C4_Witness ==
    /\ CodeNoYear
    /\ cur[1].path.base = JoinUnderscore(<<TokX, TokCode, TokNotYear, TokX>>)
    /\ cur[1].new_base = JoinUnderscore(<<TokX, TokCode, AcmeStore>>)

\* <new_base>_v<k><ext> in the directory of path
Slot(path, new_base, k) ==
    [dir |-> path.dir, base |-> new_base \o <<"_", "v">> \o Decimal(k),
     ext |-> path.ext]

\* the path the claim gives a file whose target is <new_base><ext>: the
\* target when it is free, else the slot of the smallest free k >= 2
ExpectedDestination(path, new_base, files) ==
    LET target == [dir |-> path.dir, base |-> new_base, ext |-> path.ext]
        n      == Cardinality(DOMAIN files)
    IN  IF target \notin DOMAIN files THEN target
        ELSE Slot(path, new_base,
                  CHOOSE k \in 2..(n + 1) :
                      /\ Slot(path, new_base, k) \notin DOMAIN files
                      /\ \A j \in 2..(k - 1) :
                            Slot(path, new_base, j) \in DOMAIN files)

PathA == InRoot(JoinUnderscore(<<TokCode, <<"A">>, TokYear>>), Pdf)

PathX == InRoot(JoinUnderscore(<<TokCode, TokX, TokYear>>), Pdf)

\* C5: the destination of a rename is the target when it is free and else
\* <base>_v<k><ext> for the smallest k >= 2 that is free, and the file is
\* renamed to it; two files resolving to the same X.pdf end up as X.pdf
\* and X_v2.pdf; the probe counter, which every turn of the loop raises,
\* never passes the number of paths plus one and the loop always has a
\* next step, so it ends
C5_SmallestFreeSlot ==
    /\ pc[1] = "rename" =>
          cur[1].new_path = ExpectedDestination(cur[1].path, cur[1].new_base, fs)
    /\ (last[1].status = "renamed" /\ ~dry_run) =>
          /\ last[1].new_path \in DOMAIN fs
          /\ fs[last[1].new_path] = last[1].path
    /\ (pc[1] = "done" /\ ~dry_run /\ deny = {} /\ table = TableAcme
          /\ DOMAIN fs0 = {PathA, PathX}) =>
          DOMAIN fs = {InRoot(NameTarget, Pdf),
                       InRoot(NameTarget \o <<"_", "v", "2">>, Pdf)}
    /\ pc[1] = "probe" =>
          /\ 2 <= cur[1].i
          /\ cur[1].i <= Cardinality(DOMAIN fs) + 1
          /\ ENABLED (ProbeNext(1) \/ ProbeFound(1))

\* X.pdf existed and two more files resolved to X.pdf: they are X_v2.pdf
\* and X_v3.pdf
C5_Witness ==
    /\ pc[1] = "done"
    /\ DOMAIN fs0 = {PathA, PathX, InRoot(NameTarget, Pdf)}
    /\ DOMAIN fs = {InRoot(NameTarget, Pdf),
                    InRoot(NameTarget \o <<"_", "v", "2">>, Pdf),
                    InRoot(NameTarget \o <<"_", "v", "3">>, Pdf)}

\* what rename_file returns for a file name under a mapping when it does
\* rename
ActionFor(path, m) ==
    IF TokensOf(path.base) = <<>> \/ NewBase(TokensOf(path.base), m) = path.base
    THEN "skipped" ELSE "renamed"

\* C6: with dry_run the paths under the root stay as they were, and each
\* file is reported 'renamed' or 'skipped' as its name and the mapping decide
C6_DryRunNoChange ==
    dry_run =>
        /\ fs = fs0
        /\ errors[1] = 0
        /\ last[1].status # "none" =>
              last[1].status = ActionFor(last[1].path, mapping[1])
        /\ pc[1] = "done" =>
              /\ renamed[1] = Cardinality({q \in DOMAIN fs0 :
                     IsEligible(q) /\ ActionFor(q, mapping[1]) = "renamed"})
              /\ skipped[1] = Cardinality({q \in DOMAIN fs0 :
                     IsEligible(q) /\ ActionFor(q, mapping[1]) = "skipped"})

C6_Witness ==
    /\ dry_run
    /\ pc[1] = "done"
    /\ renamed[1] >= 1
    /\ skipped[1] >= 1

\* the files of the directory that pass the filters of the walk
EligibleCount == Cardinality({q \in DOMAIN fs0 : IsEligible(q)})

\* C7: once the lexicon has loaded the pass does not raise; each call that
\* raises adds exactly 1 to errors, the walk goes on (a rename always has
\* a next step, failed or not, and every file is counted once), and at the
\* end renamed + skipped + errors is the number of eligible files
C7_ErrorsCounted ==
    /\ pc[1] = "raised" =>
          /\ mapping[1] = EmptyMapping
          /\ last[1] = NoLast
    /\ errors[1] = Cardinality(raisedOn)
    /\ pc[1] \in {"walk", "done"} =>
          renamed[1] + skipped[1] + errors[1] + Cardinality(todo[1]) = EligibleCount
    /\ InCall(1) =>
          renamed[1] + skipped[1] + errors[1] + Cardinality(todo[1]) + 1
            = EligibleCount
    /\ pc[1] = "done" =>
          /\ todo[1] = {}
          /\ renamed[1] + skipped[1] + errors[1] = EligibleCount
    /\ pc[1] = "rename" =>
          ENABLED (RenameDry(1) \/ RenameDone(1) \/ RenameError(1))

\* one file that cannot be renamed and two good files
C7_Witness ==
    /\ pc[1] = "done"
    /\ EligibleCount = 3
    /\ errors[1] = 1
    /\ renamed[1] + skipped[1] = 2

\* a row of the table that has a code and a name
UsableRow(row) ==
    /\ Strip(row.code) # <<>> /\ Lower(Strip(row.code)) # <<"n", "a", "n">>
    /\ Strip(row.nom) # <<>> /\ Lower(Strip(row.nom)) # <<"n", "a", "n">>

\* the table is unreadable, lacks a column, or has no usable row
UnusableTable(t) ==
    \/ ~t.readable
    \/ ~\E c \in t.columns : Upper(c) = <<"N", "O", "C", "L", "I">>
    \/ ~\E c \in t.columns : Upper(c) = <<"N", "O", "M", "C", "L", "I">>
    \/ ~\E k \in 1..Len(t.rows) : UsableRow(t.rows[k])

\* C8: with such a table rename_with_lexique raises LexiqueError before any
\* file is examined: nothing is renamed and nothing is counted
C8_LexiqueErrorFirst ==
    UnusableTable(table) =>
        /\ pc[1] \in {"start", "raised"}
        /\ fs = fs0
        /\ todo[1] = {}
        /\ last[1] = NoLast
        /\ renamed[1] = 0 /\ skipped[1] = 0 /\ errors[1] = 0

C8_Witness ==
    /\ pc[1] = "raised"
    /\ table = TableNoRows
    /\ \E q \in DOMAIN fs0 : IsEligible(q)

\* C9 as stated: a mapping load_lexique returned has only non-empty keys
\* and only non-empty values
C9_NonEmptyValues ==
    pc[1] \in {"walk", "exists", "probe", "rename", "done"} =>
        \A c \in DOMAIN mapping[1] : c # <<>> /\ mapping[1][c] # <<>>

(***************************************************************************)
(* split_and_process.                                                      *)
(***************************************************************************)
\* the header rule as stated: case-insensitively, with or without the accent
HeaderName(nom) == StartsWith(Upper(StripAccents(Strip(nom))), DesignationPlain)

Validated(info) ==
    IF Present(info.nom) /\ HeaderName(info.nom)
    THEN [info EXCEPT !.nom = NONE] ELSE info

\* the pages of a readable, non-empty PDF are being routed
Routing == pdf_ok /\ Len(pages) > 0

\* C10: every page handled by split_and_process has exactly one log row and
\* one destination; the destination is the composed name
\* ALPHA_OP<op>_<code>_<name>_<year>.pdf in the output directory if and only
\* if operation, code, name and year are all present once a name starting,
\* whatever its case and with or without its accent, with DESIGNATION has
\* been nulled, and otherwise it is in the errors directory with an ERROR
\* row.  The statement is read in the code's favour: a destination is
\* written only when dry_run is off, and a name already taken gets the
\* " (i)" suffix of unique_path.
C10_Original ==
    Routing =>
        /\ Len(log) = page_i
        /\ \A k \in 1..page_i :
              LET info == Validated(pages[k])
              IN  IF AllFields(info)
                  THEN /\ log[k].action # "ERROR"
                       /\ StartsWith(log[k].out, ComposedBase(info))
                       /\ ~dry_run => log[k].out \in out_files \ out0
                  ELSE /\ log[k].action = "ERROR"
                       /\ StartsWith(log[k].out, ErrorBase(k - 1))
                       /\ ~dry_run => log[k].out \in err_files \ err0

\* a page whose name is DESIGNATION written with a combining accent has been
\* handled with dry_run off and sits in the output directory as a renamed page
C10_Witness ==
    /\ Routing
    /\ ~dry_run
    /\ \E k \in 1..page_i :
          /\ pages[k].nom # NONE
          /\ \E c \in 1..Len(pages[k].nom) : pages[k].nom[c] \in Combining
          /\ HeaderName(pages[k].nom)
          /\ log[k].action = "RENAMED"
          /\ log[k].out \in out_files \ out0

(***************************************************************************)
(* normalize_text.                                                         *)
(***************************************************************************)
\* C11: normalize_text is idempotent: normalizing the result of
\* normalize_text gives that result again
C11_Idempotent == npc = "twice" => again = norm

\* a text with an accent, a parenthesized group and punctuation that the
\* first call changed has been normalized twice
C11_Witness ==
    /\ npc = "twice"
    /\ norm # text
    /\ norm # <<>>
    /\ \E k \in 1..Len(text) : text[k] = "("
    /\ \E k \in 1..Len(text) : text[k] = "eacute"

\* the index in s, from i on, of the ")" that closes a group open at depth
\* depth; 0 when the group is not closed
RECURSIVE CloseAt(_, _, _)
CloseAt(s, i, depth) ==
    IF i > Len(s) THEN 0
    ELSE IF s[i] = "(" THEN CloseAt(s, i + 1, depth + 1)
    ELSE IF s[i] = ")"
         THEN IF depth = 1 THEN i ELSE CloseAt(s, i + 1, depth - 1)
    ELSE CloseAt(s, i + 1, depth)

\* s without its parenthesized groups, a group running from its "(" to the
\* ")" that closes it, and without the whitespace before each group
RECURSIVE RemoveGroups(_)
RemoveGroups(s) ==
    IF s = <<>> THEN <<>>
    ELSE LET rest == SubSeq(s, LeadingIn(s, Whitespace) + 1, Len(s))
             k    == IF rest # <<>> /\ Head(rest) = "(" THEN CloseAt(rest, 2, 1)
                     ELSE 0
         IN  IF k > 0 THEN RemoveGroups(SubSeq(rest, k + 1, Len(rest)))
             ELSE <<Head(s)>> \o RemoveGroups(Tail(s))

\* the steps of normalize_text after the removal of the groups
AfterGroups(s) == Strip(CollapseSpaces(PunctToSpace(StripAccents(s))))

\* a group of s holds another group
RECURSIVE Nested(_, _)
Nested(s, depth) ==
    IF s = <<>> THEN FALSE
    ELSE IF Head(s) = "("
         THEN (depth > 0 /\ CloseAt(s, 2, 1) > 0) \/ Nested(Tail(s), depth + 1)
    ELSE IF Head(s) = ")"
         THEN Nested(Tail(s), IF depth > 0 THEN depth - 1 ELSE 0)
    ELSE Nested(Tail(s), depth)

\* every parenthesis of s has its partner
RECURSIVE Balanced(_, _)
Balanced(s, depth) ==
    IF s = <<>> THEN depth = 0
    ELSE IF Head(s) = "(" THEN Balanced(Tail(s), depth + 1)
    ELSE IF Head(s) = ")" THEN depth > 0 /\ Balanced(Tail(s), depth - 1)
    ELSE Balanced(Tail(s), depth)

\* C12: the output of normalize_text has no parenthesis and nothing of the
\* text of a parenthesized group, nested groups included, and the whitespace
\* before a group is removed with it: for a text whose parentheses pair up
\* the output is the normalization of the text without its groups
C12_Original ==
    (npc \in {"once", "twice"} /\ Balanced(text, 0)) =>
        /\ \A k \in 1..Len(norm) : norm[k] \notin {"(", ")"}
        /\ norm = AfterGroups(RemoveGroups(text))

\* a text that is one group holding another has been normalized and a
\* letter of the outer group is in the output
C12_Witness ==
    /\ npc = "once"
    /\ Len(text) > 0
    /\ Head(text) = "("
    /\ CloseAt(text, 2, 1) = Len(text)
    /\ Nested(text, 0)
    /\ \E k \in 1..Len(norm) : norm[k] = "a"

(***************************************************************************)
(* extract_fields_from_text.                                               *)
(***************************************************************************)
PageLines == Lines(page_txt)

\* window i passes one of the two tests and no window before it passes any
FirstBlock(i) ==
    /\ i \in WindowStarts(PageLines)
    /\ Standard(PageLines, i) \/ Relaxed(PageLines, i)
    /\ \A j \in 0..(i - 1) : ~(Standard(PageLines, j) \/ Relaxed(PageLines, j))

\* window i passes the 4-line test and no window before it does
FirstStandard(i) ==
    /\ i \in WindowStarts(PageLines)
    /\ Standard(PageLines, i)
    /\ \A j \in 0..(i - 1) : ~Standard(PageLines, j)

\* window i passes the 5-line test and no window before it does
FirstRelaxed(i) ==
    /\ i \in WindowStarts(PageLines)
    /\ Relaxed(PageLines, i)
    /\ \A j \in 0..(i - 1) : ~Relaxed(PageLines, j)

\* C13 as stated: the name comes from the first window passing the 4-line
\* test if there is one, even when a window passing the 5-line test starts
\* earlier; from the first window passing the 5-line test when no window
\* passes the 4-line test; from the fallback when no window passes either
C13_Original ==
    xpc = "returned" =>
        /\ \A i \in WindowStarts(PageLines) :
              FirstStandard(i) => fields.nom = WindowName(PageLines, i)
        /\ \A i \in WindowStarts(PageLines) :
              (FirstRelaxed(i) /\ \A j \in WindowStarts(PageLines) : ~Standard(PageLines, j))
                  => fields.nom = WindowName(PageLines, i)
        /\ (\A j \in WindowStarts(PageLines) :
               ~(Standard(PageLines, j) \/ Relaxed(PageLines, j)))
              => fields.nom = FallbackName(PageLines)

\* C13: the windows are tried in the order of their first line, each with
\* the 4-line test and then the 5-line test, and the name comes from the
\* first window that passes either test, so a window passing only the
\* 5-line test wins over a later window passing the 4-line test; the
\* fallback decides only when no window passes either test
C13_FirstWindowWins ==
    xpc = "returned" =>
        /\ \A i \in WindowStarts(PageLines) :
              FirstBlock(i) => fields.nom = WindowName(PageLines, i)
        /\ (\A j \in WindowStarts(PageLines) :
               ~(Standard(PageLines, j) \/ Relaxed(PageLines, j)))
              => fields.nom = FallbackName(PageLines)

\* the first window to pass a test passes the 5-line test only, a later
\* window passes the 4-line test and has another name, and the name
\* returned is the one of the earlier window
C13_Witness ==
    /\ xpc = "returned"
    /\ \E i, j \in WindowStarts(PageLines) :
          /\ FirstBlock(i)
          /\ ~Standard(PageLines, i)
          /\ FirstStandard(j)
          /\ i < j
          /\ WindowName(PageLines, i) # WindowName(PageLines, j)
          /\ fields.nom = WindowName(PageLines, i)

\* where the group of the leftmost match of RE_CODE starts, 0 without a match
LabelCodeStart ==
    IF \E p \in 1..Len(page_txt) : LabelCodeAt(page_txt, p) > 0
    THEN LabelCodeAt(page_txt, CHOOSE q \in 1..Len(page_txt) :
                                  /\ LabelCodeAt(page_txt, q) > 0
                                  /\ \A r \in 1..(q - 1) : LabelCodeAt(page_txt, r) = 0)
    ELSE 0

\* where the first standalone 5-digit number starts, 0 when there is none
StandaloneStart ==
    IF FiveDigitStarts(page_txt) = {} THEN 0
    ELSE CHOOSE q \in FiveDigitStarts(page_txt) :
            \A r \in FiveDigitStarts(page_txt) : q <= r

\* the 5 characters from p on are a run of digits with no digit before it
\* and none after it
MaximalFive(p) ==
    /\ DigitsFrom(page_txt, p) = 5
    /\ p = 1 \/ page_txt[p - 1] \notin Digits

\* C14: a code that extract_fields_from_text returns is a maximal run of
\* exactly 5 digits of the page text, taken after the "Codification ... : /"
\* label whenever the labelled form is present and else from the first
\* standalone 5-digit number
C14_Original ==
    (xpc = "returned" /\ fields.code # NONE) =>
        LET p == IF LabelCodeStart > 0 THEN LabelCodeStart ELSE StandaloneStart
        IN  /\ p > 0
            /\ fields.code = SubSeq(page_txt, p, p + 4)
            /\ MaximalFive(p)

\* the label is followed by a run of six digits and the code returned is
\* the first five of them
C14_Witness ==
    /\ xpc = "returned"
    /\ LabelCodeStart > 0
    /\ DigitsFrom(page_txt, LabelCodeStart) = 6
    /\ fields.code = SubSeq(page_txt, LabelCodeStart, LabelCodeStart + 4)

\* the token of the label "OPERATION N[o°]? <token>" at p in s, the word in
\* any letter case, NONE when the label is not at p
LabelTokenAt(s, p) ==
    IF ~MatchesAt(s, p, Operation) THEN NONE
    ELSE LET n == p + 9 + SpacesFrom(s, p + 9)
         IN  IF n > Len(s) \/ UpperChar(s[n]) # "N" THEN NONE
             ELSE LET m == IF n + 1 <= Len(s) /\ s[n + 1] \in {"o", "deg", "ordm"}
                           THEN n + 2 ELSE n + 1
                      t == m + SpacesFrom(s, m)
                      u == n + 1 + SpacesFrom(s, n + 1)
                  IN  IF AlnumFrom(s, t) > 0
                      THEN SubSeq(s, t, t + AlnumFrom(s, t) - 1)
                      ELSE IF AlnumFrom(s, u) > 0
                      THEN SubSeq(s, u, u + AlnumFrom(s, u) - 1)
                      ELSE NONE

\* the token of the first such label of s, NONE when s has none
FirstLabelToken(s) ==
    IF \E p \in 1..Len(s) : LabelTokenAt(s, p) # NONE
    THEN LabelTokenAt(s, CHOOSE p \in 1..Len(s) :
                            /\ LabelTokenAt(s, p) # NONE
                            /\ \A q \in 1..(p - 1) : LabelTokenAt(s, q) = NONE)
    ELSE NONE

\* C15: the operation returned is the token T of the first label made of
\* the word OPERATION, in any letter case and with or without the accent on
\* its E, of "N", of an optional "o" or "°" and of T; it is absent when the
\* page has no such label
C15_Original ==
    xpc = "returned" => fields.op = FirstLabelToken(StripAccents(page_txt))

\* the page is "OPERATION No AB12" and the operation returned is "o"
C15_Witness ==
    /\ xpc = "returned"
    /\ page_txt = Operation \o <<" ", "N", "o", " ">> \o OpAB
    /\ fields.op = <<"o">>

(***************************************************************************)
(* Concurrent passes.                                                      *)
(***************************************************************************)
\* invocation p is about to call path.rename(new_path) with a source that
\* no longer exists or a destination that exists
BadRename(p) ==
    /\ pc[p] = "rename"
    /\ cur[p].path \notin DOMAIN fs \/ cur[p].new_path \in DOMAIN fs

\* C16: with a single invocation no rename is issued onto a path that
\* exists or from a path that no longer exists; two passes over the same
\* tree can reach such a state, the check of the destination and the rename
\* being two steps (the state of C16_Witness)
C16_SinglePassSafe ==
    (\A q \in Procs \ {1} : pc[q] = "idle") => ~BadRename(1)

\* two passes chose the same free destination for two files: one has
\* renamed its file onto it and the other is about to rename onto the path
\* that now exists
C16_Witness ==
    /\ pc[1] = "walk" /\ pc[2] = "rename"
    /\ last[1].status = "renamed"
    /\ last[1].new_path = cur[2].new_path
    /\ last[1].path # cur[2].path
    /\ cur[2].path \in DOMAIN fs
    /\ cur[2].new_path \in DOMAIN fs

(***************************************************************************)
(* A second pass.                                                          *)
(***************************************************************************)
\* the first pass was not simulated and returned with errors = 0
CleanFirstPass == ~dry_run /\ pc[1] = "done" /\ errors[1] = 0

\* base ends with "_v" and the digit d
EndsWithVersion(base, d) ==
    Len(base) >= 3 /\ SubSeq(base, Len(base) - 2, Len(base)) = <<"_", "v", d>>

\* C17: after a pass that was not simulated and finished with zero errors,
\* a second pass with the same lexicon over the same tree renames nothing
\* and reports every eligible file skipped, the files that got a _vN
\* suffix in the first pass included
C17_Original ==
    CleanFirstPass =>
        /\ renamed[2] = 0
        /\ errors[2] = 0
        /\ pc[2] = "done" => skipped[2] = Cardinality(Eligible(fs))

\* after such a first pass the second pass has renamed, to the _v3 name, a
\* file the first pass had given its _v2 name
C17_Witness ==
    /\ CleanFirstPass
    /\ last[2].status = "renamed"
    /\ last[1].status = "renamed"
    /\ last[1].new_path = last[2].path
    /\ EndsWithVersion(last[2].path.base, "2")
    /\ EndsWithVersion(last[2].new_path.base, "3")
    /\ last[2].new_path \in DOMAIN fs

(***************************************************************************)
(* Tokens of the reconstructed name.                                       *)
(***************************************************************************)
\* the number of tokens of ts equal to t
Occurrences(ts, t) == Cardinality({k \in 1..Len(ts) : ts[k] = t})

\* C18: rename_file duplicates no token of the original name: the
\* reconstructed sequence has at most one token more than the original, and
\* the code token and the year token occur in it no more often than in the
\* original, also when the year token is before the code token or is the
\* code token
C18_Original ==
    (InCall(1) /\ FirstKey(TokensOf(cur[1].path.base), mapping[1]) # 0) =>
        LET tokens == TokensOf(cur[1].path.base)
            c      == FirstKey(tokens, mapping[1])
            y      == LastYear(tokens)
            new    == NewTokens(tokens, mapping[1])
        IN  /\ cur[1].new_base = Tidy(JoinUnderscore(new))
            /\ Len(new) <= Len(tokens) + 1
            /\ mapping[1][tokens[c]] # tokens[c] =>
                  Occurrences(new, tokens[c]) <= Occurrences(tokens, tokens[c])
            /\ (y # 0 /\ mapping[1][tokens[c]] # tokens[y]) =>
                  Occurrences(new, tokens[y]) <= Occurrences(tokens, tokens[y])

\* "2023_12345_X" under {"12345": "ACME STORE"} is about to be renamed to
\* "2023_12345_ACME STORE_2023_12345_X"
C18_Witness ==
    /\ InCall(1)
    /\ table = TableAcme
    /\ cur[1].path.base = JoinUnderscore(<<TokYear, TokCode, TokX>>)
    /\ cur[1].new_base =
          JoinUnderscore(<<TokYear, TokCode, AcmeStore, TokYear, TokCode, TokX>>)

(***************************************************************************)
(* Conservation of the files by one pass.                                  *)
(***************************************************************************)
\* the files that are under the root now, each named by the path it had
\* when the pass started
OriginalsOf(files) == {files[q] : q \in DOMAIN files}

\* C19: in a single pass that is not simulated no rename is issued onto a
\* path that exists, so at every moment of the pass there are as many files
\* under the root as before it, every original file is under exactly one
\* name, and the files that the filters of the walk exclude have the names
\* they had
C19_FilesConserved ==
    ~dry_run =>
        /\ pc[1] = "rename" => cur[1].new_path \notin DOMAIN fs
        /\ Cardinality(DOMAIN fs) = Cardinality(DOMAIN fs0)
        /\ OriginalsOf(fs) = DOMAIN fs0
        /\ \A q \in DOMAIN fs0 :
              ~IsEligible(q) => (q \in DOMAIN fs /\ fs[q] = q)

\* a pass over 12345_X_2023.pdf, the file that already has its target name
\* and a .txt file is over: the first was renamed to the _v2 name, the
\* target being taken, and the other two are where they were
C19_Witness ==
    /\ ~dry_run
    /\ pc[1] = "done"
    /\ DOMAIN fs0 = {PathX, InRoot(NameTarget, Pdf),
                     InRoot(JoinUnderscore(<<TokCode, TokX, TokYear>>),
                            <<"t", "x", "t">>)}
    /\ renamed[1] = 1
    /\ fs[InRoot(NameTarget \o <<"_", "v", "2">>, Pdf)] = PathX

=============================================================================
